---- MODULE Spec2Model ----
(***************************************************************************)
(* Transaction / balance / budget consistency engine of grana-zen-backend. *)
(* Tables are the variables; every handler of models/Despesa.js,           *)
(* models/Receita.js and models/Orcamento.js is one action.  Amounts are   *)
(* integers (one unit = 1000.00), so parseFloat is exact.                  *)
(***************************************************************************)
EXTENDS Integers, Sequences, FiniteSets, TLC

VARIABLES
    gzen_receitas,        \* Seq of income rows; the row id is the index
    gzen_despesas,        \* Seq of expense rows; the row id is the index
    gzen_accounts,        \* account id -> saldo_atual
    gzen_cartao_credito,  \* card account id -> [limite_total, limite_disponivel]
    gzen_orcamento,       \* set of budget rows, unique per (user_id, mes, ano)
    gzen_despesa_tags,    \* set of [despesa_id, tag_id] rows
    gzen_receita_tags,    \* set of [receita_id, tag_id] rows
    tz,                   \* UTC offset (hours) of the server's local time zone
    hist,                 \* history: one record per completed call
    emCurso               \* calls in flight: process -> its position and local values

vars == <<gzen_receitas, gzen_despesas, gzen_accounts, gzen_cartao_credito,
          gzen_orcamento, gzen_despesa_tags, gzen_receita_tags, tz, hist, emCurso>>

\* ------------------------------------------------------------------ bounds
MaxTx == 2
MaxOps == 3

\* ------------------------------------------------------------ input domains
Users == {"u1"}
Contas == {"A1", "A2"}
ContasNovas == {"A1"}
Cartao == "C1"
SemCartao == "null"
Valores == {1, 3}
Status == {"pendente", "confirmada", "cancelada"}
Datas == {[ano |-> 2024, mes |-> 12, dia |-> 31], [ano |-> 2025, mes |-> 1, dia |-> 1]}
Periodos == {[mes |-> 12, ano |-> 2024], [mes |-> 1, ano |-> 2025]}
FusosHorarios == {-3, 0}
SaldosIniciais == [A1 |-> 2, A2 |-> 1, C1 |-> 0]
CartoesIniciais ==
    { [C1 |-> [limite_total |-> 5, limite_disponivel |-> 3]],
      [C1 |-> [limite_total |-> 2, limite_disponivel |-> 0]] }
SemFalha == {}
SemTags == {}
NoRow == [ativo |-> FALSE, status |-> "-"]

\* ------------------------------------------------------------------- dates
Bissexto(ano) == (ano % 4 = 0 /\ ano % 100 # 0) \/ ano % 400 = 0

\* new Date(ano, mes, 0).getDate(): the last day of month mes (1-based)
UltimoDia(ano, mes) ==
    IF mes = 2 THEN (IF Bissexto(ano) THEN 29 ELSE 28)
    ELSE IF mes \in {4, 6, 9, 11} THEN 30 ELSE 31

DiaAnterior(d) ==
    IF d.dia > 1 THEN [d EXCEPT !.dia = @ - 1]
    ELSE IF d.mes > 1
         THEN [ano |-> d.ano, mes |-> d.mes - 1, dia |-> UltimoDia(d.ano, d.mes - 1)]
         ELSE [ano |-> d.ano - 1, mes |-> 12, dia |-> 31]

DiaSeguinte(d) ==
    IF d.dia < UltimoDia(d.ano, d.mes) THEN [d EXCEPT !.dia = @ + 1]
    ELSE IF d.mes < 12
         THEN [ano |-> d.ano, mes |-> d.mes + 1, dia |-> 1]
         ELSE [ano |-> d.ano + 1, mes |-> 1, dia |-> 1]

\* The calendar day, in a zone `offset` hours from UTC, of the instant that is
\* `horaUTC` o'clock UTC on day d.
DataDoInstante(d, horaUTC, offset) ==
    LET h == horaUTC + offset
    IN  IF h < 0 THEN DiaAnterior(d)
        ELSE IF h >= 24 THEN DiaSeguinte(d)
        ELSE d

\* new Date(s + 'T00:00:00-03:00').toISOString().split('T')[0]:
\* midnight at UTC-3 is 03:00 UTC; the ISO string is the UTC day.
DataISO(d) == DataDoInstante(d, 3, 0)

\* new Date('YYYY-MM-DD') is midnight UTC; getMonth() + 1 and getFullYear()
\* read it in the server's local zone.
MesAnoLocal(d) ==
    LET l == DataDoInstante(d, 0, tz)
    IN  [mes |-> l.mes, ano |-> l.ano]

DataLeq(a, b) ==
    \/ a.ano < b.ano
    \/ a.ano = b.ano /\ a.mes < b.mes
    \/ a.ano = b.ano /\ a.mes = b.mes /\ a.dia <= b.dia

\* gte(dataInicio) and lte(dataFim) of a month's range query
NoPeriodo(d, mes, ano) ==
    /\ DataLeq([ano |-> ano, mes |-> mes, dia |-> 1], d)
    /\ DataLeq(d, [ano |-> ano, mes |-> mes, dia |-> UltimoDia(ano, mes)])

\* ----------------------------------------------------------------- helpers
Min(a, b) == IF a < b THEN a ELSE b
Max(a, b) == IF a > b THEN a ELSE b

RECURSIVE SomaValor(_)
SomaValor(s) == IF s = <<>> THEN 0 ELSE Head(s).valor + SomaValor(Tail(s))

\* JavaScript's  u[k] || alt : an absent or zero field is falsy
Ou(u, k, alt) == IF k \in DOMAIN u /\ u[k] # 0 THEN u[k] ELSE alt

\* The derived state the side effects of a call work on
Derivado == [accounts |-> gzen_accounts, cartoes |-> gzen_cartao_credito,
             orcamento |-> gzen_orcamento,
             despesa_tags |-> gzen_despesa_tags, receita_tags |-> gzen_receita_tags]

BuscaOrcamento(orcs, userId, mes, ano) ==
    {o \in orcs : o.user_id = userId /\ o.mes = mes /\ o.ano = ano}

\* INSERT into gzen_orcamento under its unique key (user_id, mes, ano), the
\* key recalcular's upsert names in onConflict; meta_economia takes the
\* column default when the insert does not give it.
InsereOrcamento(orcs, row) ==
    IF BuscaOrcamento(orcs, row.user_id, row.mes, row.ano) # {} THEN orcs
    ELSE orcs \cup {row}

NovoOrcamento(userId, mes, ano, receita, despesa, saldo) ==
    [user_id |-> userId, mes |-> mes, ano |-> ano, receita_total |-> receita,
     despesa_total |-> despesa, saldo_atual |-> saldo, meta_economia |-> 0]

\* const { tags, ...dados } = data: the tag ids of a payload, none when absent
TagsDe(data) == IF "tags" \in DOMAIN data THEN data.tags ELSE SemTags

\* if (tags && tags.length > 0) insert(tagInserts): one row per tag id; a
\* failed insert returns its error, which is logged, and the call goes on.
InsereTags(st, tabela, chave, id, tags, f) ==
    IF tags # SemTags /\ tabela \notin f
    THEN [st EXCEPT ![IF tabela = "gzen_despesa_tags" THEN "despesa_tags" ELSE "receita_tags"] =
              @ \cup {[k \in {chave, "tag_id"} |-> IF k = chave THEN id ELSE t] : t \in tags}]
    ELSE st

\* ------------------------------------------------------ Despesa side effects
\* A write that fails returns an error object (the handlers read it with
\* const { error } = await ...); the side effects do not look at it.
\* f is the set of tables whose writes fail during the call.
\* Variant: an upsert, which starts an absent account at 0
Despesa_updateAccountBalance_upsert(st, accountId, valor, operation, f) ==
    IF "gzen_accounts" \in f THEN st
    ELSE LET saldo == IF accountId \in DOMAIN st.accounts THEN st.accounts[accountId] ELSE 0
             novoSaldo == IF operation = "add" THEN saldo + valor ELSE saldo - valor
         IN  [st EXCEPT !.accounts = [a \in DOMAIN @ \cup {accountId} |->
                                         IF a = accountId THEN novoSaldo ELSE @[a]]]

\* Variant: a write that would leave the balance below zero is refused
Despesa_updateAccountBalance_semNegativo(st, accountId, valor, operation, f) ==
    IF accountId \in DOMAIN st.accounts /\ "gzen_accounts" \notin f
    THEN LET novoSaldo == IF operation = "add"
                          THEN st.accounts[accountId] + valor
                          ELSE st.accounts[accountId] - valor
         IN  IF novoSaldo < 0 THEN st ELSE [st EXCEPT !.accounts[accountId] = novoSaldo]
    ELSE st

Despesa_updateAccountBalance(st, accountId, valor, operation, f) ==
    IF accountId \in DOMAIN st.accounts /\ "gzen_accounts" \notin f
    THEN LET novoSaldo == IF operation = "add"
                          THEN st.accounts[accountId] + valor
                          ELSE st.accounts[accountId] - valor
         IN  [st EXCEPT !.accounts[accountId] = novoSaldo]
    ELSE st

Despesa_updateOrcamento(st, userId, data, valor, tipo, operation, f) ==
    LET p == MesAnoLocal(data)
        achados == BuscaOrcamento(st.orcamento, userId, p.mes, p.ano)
    IN  IF "gzen_orcamento" \in f THEN st
        ELSE IF achados = {}
        THEN [st EXCEPT !.orcamento = InsereOrcamento(@,
                 NovoOrcamento(userId, p.mes, p.ano,
                               IF tipo = "receita" THEN valor ELSE 0,
                               IF tipo = "despesa" THEN valor ELSE 0,
                               IF tipo = "receita" THEN valor ELSE -valor))]
        ELSE LET orcamento == CHOOSE o \in achados : TRUE
                 multiplicador == IF operation = "add" THEN 1 ELSE -1
                 valorAtualizado == valor * multiplicador
                 updates == IF tipo = "receita"
                            THEN [receita_total |-> orcamento.receita_total + valorAtualizado]
                            ELSE [despesa_total |-> orcamento.despesa_total + valorAtualizado]
                 novaReceita == Ou(updates, "receita_total", orcamento.receita_total)
                 novaDespesa == Ou(updates, "despesa_total", orcamento.despesa_total)
                 gravado == [k \in DOMAIN orcamento |->
                               IF k = "saldo_atual" THEN novaReceita - novaDespesa
                               ELSE IF k \in DOMAIN updates THEN updates[k]
                               ELSE orcamento[k]]
             IN  [st EXCEPT !.orcamento = (@ \ {orcamento}) \cup {gravado}]

EhFatura(despesa) == despesa.eh_pagamento_fatura /\ despesa.cartao_origem_id # SemCartao

\* Variant: the new available limit is not capped at limite_total
Despesa_processarPagamentoFatura_semTeto(st, despesa, f) ==
    LET s1 == Despesa_updateAccountBalance(st, despesa.account_id, despesa.valor, "subtract", f)
    IN  IF despesa.cartao_origem_id \in DOMAIN s1.cartoes /\ "gzen_cartao_credito" \notin f
        THEN [s1 EXCEPT !.cartoes[despesa.cartao_origem_id].limite_disponivel = @ + despesa.valor]
        ELSE s1

\* Variant: the payment is also booked on the account of the card itself
Despesa_processarPagamentoFatura_naContaDoCartao(st, despesa, f) ==
    LET s1 == Despesa_updateAccountBalance(st, despesa.account_id, despesa.valor, "subtract", f)
        s2 == Despesa_updateAccountBalance(s1, despesa.cartao_origem_id, despesa.valor, "add", f)
    IN  IF despesa.cartao_origem_id \in DOMAIN s2.cartoes /\ "gzen_cartao_credito" \notin f
        THEN LET cartao == s2.cartoes[despesa.cartao_origem_id]
                 novoLimiteDisponivel == cartao.limite_disponivel + despesa.valor
                 limiteAtualizado == Min(novoLimiteDisponivel, cartao.limite_total)
             IN  [s2 EXCEPT !.cartoes[despesa.cartao_origem_id].limite_disponivel = limiteAtualizado]
        ELSE s2

Despesa_processarPagamentoFatura(st, despesa, f) ==
    LET s1 == Despesa_updateAccountBalance(st, despesa.account_id, despesa.valor, "subtract", f)
    IN  IF despesa.cartao_origem_id \in DOMAIN s1.cartoes /\ "gzen_cartao_credito" \notin f
        THEN LET cartao == s1.cartoes[despesa.cartao_origem_id]
                 novoLimiteDisponivel == cartao.limite_disponivel + despesa.valor
                 limiteAtualizado == Min(novoLimiteDisponivel, cartao.limite_total)
             IN  [s1 EXCEPT !.cartoes[despesa.cartao_origem_id].limite_disponivel = limiteAtualizado]
        ELSE s1

\* Variant: a failed balance write ends the processing, the budget is left out
Despesa_processarDespesa_abortaNaFalha(st, despesa, userId, f) ==
    LET s1 == IF EhFatura(despesa)
              THEN Despesa_processarPagamentoFatura(st, despesa, f)
              ELSE Despesa_updateAccountBalance(st, despesa.account_id, despesa.valor, "subtract", f)
    IN  IF "gzen_accounts" \in f THEN s1
        ELSE Despesa_updateOrcamento(s1, userId, despesa.data_despesa, despesa.valor, "despesa", "add", f)

Despesa_processarDespesa(st, despesa, userId, f) ==
    LET s1 == IF EhFatura(despesa)
              THEN Despesa_processarPagamentoFatura(st, despesa, f)
              ELSE Despesa_updateAccountBalance(st, despesa.account_id, despesa.valor, "subtract", f)
    IN  Despesa_updateOrcamento(s1, userId, despesa.data_despesa, despesa.valor, "despesa", "add", f)

\* Variant: reversing an invoice payment leaves the card's limit as it is
Despesa_reverterDespesa_semCartao(st, despesa, userId, f) ==
    Despesa_updateOrcamento(
        Despesa_updateAccountBalance(st, despesa.account_id, despesa.valor, "add", f),
        userId, despesa.data_despesa, despesa.valor, "despesa", "subtract", f)

\* Variant: the reversed limit is not floored at 0
Despesa_reverterDespesa_semPiso(st, despesa, userId, f) ==
    LET s0 == Despesa_updateAccountBalance(st, despesa.account_id, despesa.valor, "add", f)
        s1 == IF EhFatura(despesa)
              THEN IF despesa.cartao_origem_id \in DOMAIN s0.cartoes /\ "gzen_cartao_credito" \notin f
                   THEN [s0 EXCEPT !.cartoes[despesa.cartao_origem_id].limite_disponivel =
                             @ - despesa.valor]
                   ELSE s0
              ELSE s0
    IN  Despesa_updateOrcamento(s1, userId, despesa.data_despesa, despesa.valor, "despesa", "subtract", f)

Despesa_reverterDespesa(st, despesa, userId, f) ==
    LET s0 == Despesa_updateAccountBalance(st, despesa.account_id, despesa.valor, "add", f)
        s1 == IF EhFatura(despesa)
              THEN IF despesa.cartao_origem_id \in DOMAIN s0.cartoes /\ "gzen_cartao_credito" \notin f
                   THEN LET cartao == s0.cartoes[despesa.cartao_origem_id]
                            novoLimiteDisponivel == cartao.limite_disponivel - despesa.valor
                            limiteAtualizado == Max(novoLimiteDisponivel, 0)
                        IN  [s0 EXCEPT !.cartoes[despesa.cartao_origem_id].limite_disponivel = limiteAtualizado]
                   ELSE s0
              ELSE s0
    IN  Despesa_updateOrcamento(s1, userId, despesa.data_despesa, despesa.valor, "despesa", "subtract", f)

\* Variant: the old row is reversed whenever the status changes, confirmed or not
Despesa_handleBalanceUpdates_semOlharAntiga(st, despesaAntiga, despesaNova, userId, f) ==
    LET s1 == IF despesaAntiga.status # despesaNova.status \/ despesaAntiga.status = "confirmada"
              THEN Despesa_reverterDespesa(st, despesaAntiga, userId, f) ELSE st
    IN  IF despesaNova.status = "confirmada"
        THEN Despesa_processarDespesa(s1, despesaNova, userId, f)
        ELSE s1

\* Variant: leaving confirmada reverses nothing
Despesa_handleBalanceUpdates_semReversao(st, despesaAntiga, despesaNova, userId, f) ==
    IF despesaNova.status = "confirmada"
    THEN Despesa_processarDespesa(
             IF despesaAntiga.status = "confirmada"
             THEN Despesa_reverterDespesa(st, despesaAntiga, userId, f) ELSE st,
             despesaNova, userId, f)
    ELSE st

\* Variant: a confirmed row that stays confirmed moves the new account by the
\* net difference of the amounts, in one step
Despesa_handleBalanceUpdates_deltaUnico(st, despesaAntiga, despesaNova, userId, f) ==
    IF despesaAntiga.status = "confirmada" /\ despesaNova.status = "confirmada"
    THEN Despesa_updateAccountBalance(st, despesaNova.account_id,
                                      despesaNova.valor - despesaAntiga.valor, "subtract", f)
    ELSE IF despesaAntiga.status = "confirmada"
    THEN Despesa_reverterDespesa(st, despesaAntiga, userId, f)
    ELSE IF despesaNova.status = "confirmada"
    THEN Despesa_processarDespesa(st, despesaNova, userId, f)
    ELSE st


Despesa_handleBalanceUpdates(st, despesaAntiga, despesaNova, userId, f) ==
    LET s1 == IF despesaAntiga.status = "confirmada" /\ despesaNova.status # "confirmada"
              THEN Despesa_reverterDespesa(st, despesaAntiga, userId, f) ELSE st
        s2 == IF despesaAntiga.status # "confirmada" /\ despesaNova.status = "confirmada"
              THEN Despesa_processarDespesa(s1, despesaNova, userId, f) ELSE s1
    IN  IF despesaAntiga.status = "confirmada" /\ despesaNova.status = "confirmada"
        THEN Despesa_processarDespesa(
                 Despesa_reverterDespesa(s2, despesaAntiga, userId, f), despesaNova, userId, f)
        ELSE s2

\* ------------------------------------------------------ Receita side effects
Receita_updateAccountBalance(st, accountId, valor, operation, f) ==
    IF accountId \in DOMAIN st.accounts /\ "gzen_accounts" \notin f
    THEN LET novoSaldo == IF operation = "add"
                          THEN st.accounts[accountId] + valor
                          ELSE st.accounts[accountId] - valor
         IN  [st EXCEPT !.accounts[accountId] = novoSaldo]
    ELSE st

Receita_updateOrcamento(st, userId, data, valor, tipo, operation, f) ==
    LET p == MesAnoLocal(data)
        achados == BuscaOrcamento(st.orcamento, userId, p.mes, p.ano)
    IN  IF "gzen_orcamento" \in f THEN st
        ELSE IF achados = {}
        THEN [st EXCEPT !.orcamento = InsereOrcamento(@,
                 NovoOrcamento(userId, p.mes, p.ano,
                               IF tipo = "receita" THEN valor ELSE 0,
                               IF tipo = "despesa" THEN valor ELSE 0,
                               IF tipo = "receita" THEN valor ELSE -valor))]
        ELSE LET orcamento == CHOOSE o \in achados : TRUE
                 multiplicador == IF operation = "add" THEN 1 ELSE -1
                 valorAtualizado == valor * multiplicador
                 updates == IF tipo = "receita"
                            THEN [receita_total |-> orcamento.receita_total + valorAtualizado]
                            ELSE [despesa_total |-> orcamento.despesa_total + valorAtualizado]
                 novaReceita == Ou(updates, "receita_total", orcamento.receita_total)
                 novaDespesa == Ou(updates, "despesa_total", orcamento.despesa_total)
                 gravado == [k \in DOMAIN orcamento |->
                               IF k = "saldo_atual" THEN novaReceita - novaDespesa
                               ELSE IF k \in DOMAIN updates THEN updates[k]
                               ELSE orcamento[k]]
             IN  [st EXCEPT !.orcamento = (@ \ {orcamento}) \cup {gravado}]

\* create's and delete's inline pair of calls (Receita.js 50-53, 242-245)
Receita_aplicar(st, receita, userId, operation, f) ==
    Receita_updateOrcamento(
        Receita_updateAccountBalance(st, receita.account_id, receita.valor, operation, f),
        userId, receita.data_receita, receita.valor, "receita", operation, f)

Receita_handleBalanceUpdates(st, receitaAntiga, receitaNova, userId, f) ==
    LET s1 == IF receitaAntiga.status = "confirmada" /\ receitaNova.status # "confirmada"
              THEN Receita_aplicar(st, receitaAntiga, userId, "subtract", f) ELSE st
        s2 == IF receitaAntiga.status # "confirmada" /\ receitaNova.status = "confirmada"
              THEN Receita_aplicar(s1, receitaNova, userId, "add", f) ELSE s1
    IN  IF receitaAntiga.status = "confirmada" /\ receitaNova.status = "confirmada"
        THEN Receita_aplicar(
                 Receita_aplicar(s2, receitaAntiga, userId, "subtract", f),
                 receitaNova, userId, "add", f)
        ELSE s2

\* ------------------------------------------------------------ call records
\* One record per completed call: what was called, the row before and after,
\* the derived state before the call, and whether the call returned success.
Reg(op, userId, tipo, id, antiga, nova, mes, ano, ok, tags, f) ==
    [op |-> op, user_id |-> userId, tipo |-> tipo, id |-> id, antiga |-> antiga, nova |-> nova,
     mes |-> mes, ano |-> ano, pre |-> Derivado, ok |-> ok, tags |-> tags, falha |-> f]

Grava(st) ==
    /\ gzen_accounts' = st.accounts
    /\ gzen_cartao_credito' = st.cartoes
    /\ gzen_orcamento' = st.orcamento
    /\ gzen_despesa_tags' = st.despesa_tags
    /\ gzen_receita_tags' = st.receita_tags

NTx == Len(gzen_receitas) + Len(gzen_despesas)

\* UPDATE of a row with the fields the patch names
Aplica(row, updateData) ==
    [k \in DOMAIN row |-> IF k \in DOMAIN updateData THEN updateData[k] ELSE row[k]]

ConverteData(updateData, campo) ==
    [k \in DOMAIN updateData |->
        IF k = campo THEN DataISO(updateData[k]) ELSE updateData[k]]

\* Variant: the query does not filter on user_id
Despesa_findById_semDono(despesaId, userId) ==
    IF despesaId \in 1..Len(gzen_despesas) THEN gzen_despesas[despesaId] ELSE NoRow

\* select ... .eq('id', id).eq('user_id', userId).single(): no filter on ativo
Despesa_findById(despesaId, userId) ==
    IF despesaId \in 1..Len(gzen_despesas) /\ gzen_despesas[despesaId].user_id = userId
    THEN gzen_despesas[despesaId] ELSE NoRow

Receita_findById(receitaId, userId) ==
    IF receitaId \in 1..Len(gzen_receitas) /\ gzen_receitas[receitaId].user_id = userId
    THEN gzen_receitas[receitaId] ELSE NoRow

\* Variant: the side effects run whatever the status of the new row
Despesa_create_semCondicao(userId, despesaData, f) ==
    /\ LET despesa == [user_id |-> userId,
                       account_id |-> despesaData.account_id,
                       valor |-> despesaData.valor,
                       data_despesa |-> DataISO(despesaData.data_despesa),
                       status |-> despesaData.status,
                       ativo |-> TRUE,
                       eh_pagamento_fatura |-> despesaData.eh_pagamento_fatura,
                       cartao_origem_id |-> despesaData.cartao_origem_id]
           id == Len(gzen_despesas) + 1
       IN  /\ gzen_despesas' = Append(gzen_despesas, despesa)
           /\ Grava(Despesa_processarDespesa(
                      InsereTags(Derivado, "gzen_despesa_tags", "despesa_id", id, TagsDe(despesaData), f),
                      despesa, userId, f))
           /\ hist' = Append(hist, Reg("create", userId, "despesa", id, NoRow, despesa, 0, 0, TRUE,
                                       TagsDe(despesaData), f))
    /\ UNCHANGED <<gzen_receitas, tz, emCurso>>

\* ---------------------------------------------------------- Despesa handlers
Despesa_create(userId, despesaData, f) ==
    /\ LET despesa == [user_id |-> userId,
                       account_id |-> despesaData.account_id,
                       valor |-> despesaData.valor,
                       data_despesa |-> DataISO(despesaData.data_despesa),
                       status |-> despesaData.status,
                       ativo |-> TRUE,
                       eh_pagamento_fatura |-> despesaData.eh_pagamento_fatura,
                       cartao_origem_id |-> despesaData.cartao_origem_id]
           id == Len(gzen_despesas) + 1
       IN  IF "gzen_despesas" \in f
           THEN /\ UNCHANGED <<gzen_despesas, gzen_accounts, gzen_cartao_credito, gzen_orcamento,
                             gzen_despesa_tags, gzen_receita_tags>>
                /\ hist' = Append(hist, Reg("create", userId, "despesa", id, NoRow, NoRow, 0, 0, FALSE,
                                            TagsDe(despesaData), f))
           ELSE /\ gzen_despesas' = Append(gzen_despesas, despesa)
                /\ LET s1 == InsereTags(Derivado, "gzen_despesa_tags", "despesa_id", id,
                                        TagsDe(despesaData), f)
                   IN  Grava(IF despesa.status = "confirmada"
                             THEN Despesa_processarDespesa(s1, despesa, userId, f)
                             ELSE s1)
                /\ hist' = Append(hist, Reg("create", userId, "despesa", id, NoRow, despesa, 0, 0, TRUE,
                                            TagsDe(despesaData), f))
    /\ UNCHANGED <<gzen_receitas, tz, emCurso>>

Despesa_update(despesaId, userId, updateData, f) ==
    /\ LET despesaAtual == Despesa_findById(despesaId, userId)
           despesa == Aplica(despesaAtual, ConverteData(updateData, "data_despesa"))
       IN  IF despesaAtual = NoRow \/ "gzen_despesas" \in f
           THEN /\ UNCHANGED <<gzen_despesas, gzen_accounts, gzen_cartao_credito, gzen_orcamento,
                             gzen_despesa_tags, gzen_receita_tags>>
                /\ hist' = Append(hist, Reg("update", userId, "despesa", despesaId, despesaAtual, despesaAtual, 0, 0, FALSE, SemTags, f))
           ELSE /\ gzen_despesas' = [gzen_despesas EXCEPT ![despesaId] = despesa]
                /\ Grava(Despesa_handleBalanceUpdates(Derivado, despesaAtual, despesa, userId, f))
                /\ hist' = Append(hist, Reg("update", userId, "despesa", despesaId, despesaAtual, despesa, 0, 0, TRUE, SemTags, f))
    /\ UNCHANGED <<gzen_receitas, tz, emCurso>>

\* Variant: the error of the soft-delete is not looked at
Despesa_delete_ignoraErro(despesaId, userId, f) ==
    /\ LET despesa == Despesa_findById(despesaId, userId)
       IN  IF despesa = NoRow
           THEN /\ UNCHANGED <<gzen_despesas, gzen_accounts, gzen_cartao_credito, gzen_orcamento,
                             gzen_despesa_tags, gzen_receita_tags>>
                /\ hist' = Append(hist, Reg("delete", userId, "despesa", despesaId, despesa, despesa,
                                            0, 0, FALSE, SemTags, f))
           ELSE /\ gzen_despesas' = IF "gzen_despesas" \in f THEN gzen_despesas
                                    ELSE [gzen_despesas EXCEPT ![despesaId].ativo = FALSE]
                /\ Grava(IF despesa.status = "confirmada"
                         THEN Despesa_reverterDespesa(Derivado, despesa, userId, f)
                         ELSE Derivado)
                /\ hist' = Append(hist, Reg("delete", userId, "despesa", despesaId, despesa,
                                            [despesa EXCEPT !.ativo = FALSE], 0, 0, TRUE, SemTags, f))
    /\ UNCHANGED <<gzen_receitas, tz, emCurso>>

\* Variant: the delete reverses the row whatever its status
Despesa_delete_semCondicao(despesaId, userId, f) ==
    /\ LET despesa == Despesa_findById(despesaId, userId)
       IN  IF despesa = NoRow \/ "gzen_despesas" \in f
           THEN /\ UNCHANGED <<gzen_despesas, gzen_accounts, gzen_cartao_credito, gzen_orcamento,
                             gzen_despesa_tags, gzen_receita_tags>>
                /\ hist' = Append(hist, Reg("delete", userId, "despesa", despesaId, despesa, despesa,
                                            0, 0, FALSE, SemTags, f))
           ELSE /\ gzen_despesas' = [gzen_despesas EXCEPT ![despesaId].ativo = FALSE]
                /\ Grava(Despesa_reverterDespesa(Derivado, despesa, userId, f))
                /\ hist' = Append(hist, Reg("delete", userId, "despesa", despesaId, despesa,
                                            [despesa EXCEPT !.ativo = FALSE], 0, 0, TRUE, SemTags, f))
    /\ UNCHANGED <<gzen_receitas, tz, emCurso>>

Despesa_delete(despesaId, userId, f) ==
    /\ LET despesa == Despesa_findById(despesaId, userId)
       IN  IF despesa = NoRow \/ "gzen_despesas" \in f
           THEN /\ UNCHANGED <<gzen_despesas, gzen_accounts, gzen_cartao_credito, gzen_orcamento,
                             gzen_despesa_tags, gzen_receita_tags>>
                /\ hist' = Append(hist, Reg("delete", userId, "despesa", despesaId, despesa, despesa, 0, 0, FALSE, SemTags, f))
           ELSE /\ gzen_despesas' = [gzen_despesas EXCEPT ![despesaId].ativo = FALSE]
                /\ Grava(IF despesa.status = "confirmada"
                         THEN Despesa_reverterDespesa(Derivado, despesa, userId, f)
                         ELSE Derivado)
                /\ hist' = Append(hist, Reg("delete", userId, "despesa", despesaId, despesa,
                                            [despesa EXCEPT !.ativo = FALSE], 0, 0, TRUE, SemTags, f))
    /\ UNCHANGED <<gzen_receitas, tz, emCurso>>

\* ---------------------------------------------------------- Receita handlers
Receita_create(userId, receitaData, f) ==
    /\ LET receita == [user_id |-> userId,
                       account_id |-> receitaData.account_id,
                       valor |-> receitaData.valor,
                       data_receita |-> DataISO(receitaData.data_receita),
                       status |-> receitaData.status,
                       ativo |-> TRUE]
           id == Len(gzen_receitas) + 1
       IN  IF "gzen_receitas" \in f
           THEN /\ UNCHANGED <<gzen_receitas, gzen_accounts, gzen_cartao_credito, gzen_orcamento,
                             gzen_despesa_tags, gzen_receita_tags>>
                /\ hist' = Append(hist, Reg("create", userId, "receita", id, NoRow, NoRow, 0, 0, FALSE,
                                            TagsDe(receitaData), f))
           ELSE /\ gzen_receitas' = Append(gzen_receitas, receita)
                /\ LET s1 == InsereTags(Derivado, "gzen_receita_tags", "receita_id", id,
                                        TagsDe(receitaData), f)
                   IN  Grava(IF receita.status = "confirmada"
                             THEN Receita_aplicar(s1, receita, userId, "add", f)
                             ELSE s1)
                /\ hist' = Append(hist, Reg("create", userId, "receita", id, NoRow, receita, 0, 0, TRUE,
                                            TagsDe(receitaData), f))
    /\ UNCHANGED <<gzen_despesas, tz, emCurso>>

Receita_update(receitaId, userId, updateData, f) ==
    /\ LET receitaAtual == Receita_findById(receitaId, userId)
           receita == Aplica(receitaAtual, ConverteData(updateData, "data_receita"))
       IN  IF receitaAtual = NoRow \/ "gzen_receitas" \in f
           THEN /\ UNCHANGED <<gzen_receitas, gzen_accounts, gzen_cartao_credito, gzen_orcamento,
                             gzen_despesa_tags, gzen_receita_tags>>
                /\ hist' = Append(hist, Reg("update", userId, "receita", receitaId, receitaAtual, receitaAtual, 0, 0, FALSE, SemTags, f))
           ELSE /\ gzen_receitas' = [gzen_receitas EXCEPT ![receitaId] = receita]
                /\ Grava(Receita_handleBalanceUpdates(Derivado, receitaAtual, receita, userId, f))
                /\ hist' = Append(hist, Reg("update", userId, "receita", receitaId, receitaAtual, receita, 0, 0, TRUE, SemTags, f))
    /\ UNCHANGED <<gzen_despesas, tz, emCurso>>

Receita_delete(receitaId, userId, f) ==
    /\ LET receita == Receita_findById(receitaId, userId)
       IN  IF receita = NoRow \/ "gzen_receitas" \in f
           THEN /\ UNCHANGED <<gzen_receitas, gzen_accounts, gzen_cartao_credito, gzen_orcamento,
                             gzen_despesa_tags, gzen_receita_tags>>
                /\ hist' = Append(hist, Reg("delete", userId, "receita", receitaId, receita, receita, 0, 0, FALSE, SemTags, f))
           ELSE /\ gzen_receitas' = [gzen_receitas EXCEPT ![receitaId].ativo = FALSE]
                /\ Grava(IF receita.status = "confirmada"
                         THEN Receita_aplicar(Derivado, receita, userId, "subtract", f)
                         ELSE Derivado)
                /\ hist' = Append(hist, Reg("delete", userId, "receita", receitaId, receita,
                                            [receita EXCEPT !.ativo = FALSE], 0, 0, TRUE, SemTags, f))
    /\ UNCHANGED <<gzen_despesas, tz, emCurso>>

\* Variant: the query does not filter on ativo
ConfirmadasAtivas_semAtivo(tabela, campo, userId, mes, ano) ==
    LET conta(r) == /\ r.user_id = userId
                    /\ r.status = "confirmada"
                    /\ NoPeriodo(r[campo], mes, ano)
    IN  SelectSeq(tabela, conta)

\* -------------------------------------------------------- Orcamento handlers
ConfirmadasAtivas(tabela, campo, userId, mes, ano) ==
    LET conta(r) == /\ r.user_id = userId
                    /\ r.status = "confirmada"
                    /\ r.ativo = TRUE
                    /\ NoPeriodo(r[campo], mes, ano)
    IN  SelectSeq(tabela, conta)

\* Variant: the upsert replaces the whole row, meta_economia back at its default
Orcamento_recalcular_substitui(userId, mes, ano, f) ==
    /\ LET receitaTotal == SomaValor(ConfirmadasAtivas(gzen_receitas, "data_receita", userId, mes, ano))
           despesaTotal == SomaValor(ConfirmadasAtivas(gzen_despesas, "data_despesa", userId, mes, ano))
           saldoAtual == receitaTotal - despesaTotal
           achados == BuscaOrcamento(gzen_orcamento, userId, mes, ano)
       IN  /\ gzen_orcamento' = (gzen_orcamento \ achados) \cup
                                 {NovoOrcamento(userId, mes, ano, receitaTotal, despesaTotal, saldoAtual)}
           /\ hist' = Append(hist, Reg("recalcular", userId, "-", 0, NoRow, NoRow, mes, ano, TRUE, SemTags, f))
    /\ UNCHANGED <<gzen_receitas, gzen_despesas, gzen_accounts, gzen_cartao_credito,
                 gzen_despesa_tags, gzen_receita_tags, tz, emCurso>>

Orcamento_recalcular(userId, mes, ano, f) ==
    /\ LET receitaTotal == SomaValor(ConfirmadasAtivas(gzen_receitas, "data_receita", userId, mes, ano))
           despesaTotal == SomaValor(ConfirmadasAtivas(gzen_despesas, "data_despesa", userId, mes, ano))
           saldoAtual == receitaTotal - despesaTotal
           achados == BuscaOrcamento(gzen_orcamento, userId, mes, ano)
       IN  IF "gzen_orcamento" \in f
           THEN /\ UNCHANGED gzen_orcamento
                /\ hist' = Append(hist, Reg("recalcular", userId, "-", 0, NoRow, NoRow, mes, ano, FALSE, SemTags, f))
           ELSE /\ gzen_orcamento' =
                      IF achados = {}
                      THEN InsereOrcamento(gzen_orcamento,
                               NovoOrcamento(userId, mes, ano, receitaTotal, despesaTotal, saldoAtual))
                      ELSE (gzen_orcamento \ achados) \cup
                           { [o EXCEPT !.receita_total = receitaTotal,
                                       !.despesa_total = despesaTotal,
                                       !.saldo_atual = saldoAtual] : o \in achados }
                /\ hist' = Append(hist, Reg("recalcular", userId, "-", 0, NoRow, NoRow, mes, ano, TRUE, SemTags, f))
    /\ UNCHANGED <<gzen_receitas, gzen_despesas, gzen_accounts, gzen_cartao_credito,
                 gzen_despesa_tags, gzen_receita_tags, tz, emCurso>>

\* Variant: a row found is put back to zero before it is returned
Orcamento_findOrCreateByPeriod_zera(userId, mes, ano, f) ==
    /\ LET achados == BuscaOrcamento(gzen_orcamento, userId, mes, ano)
       IN  /\ gzen_orcamento' = (gzen_orcamento \ achados) \cup {NovoOrcamento(userId, mes, ano, 0, 0, 0)}
           /\ hist' = Append(hist, Reg("findOrCreate", userId, "-", 0, NoRow,
                                       NovoOrcamento(userId, mes, ano, 0, 0, 0),
                                       mes, ano, TRUE, SemTags, f))
    /\ UNCHANGED <<gzen_receitas, gzen_despesas, gzen_accounts, gzen_cartao_credito,
                 gzen_despesa_tags, gzen_receita_tags, tz, emCurso>>

Orcamento_findOrCreateByPeriod(userId, mes, ano, f) ==
    /\ LET achados == BuscaOrcamento(gzen_orcamento, userId, mes, ano)
       IN  IF achados = {} /\ "gzen_orcamento" \notin f
           THEN /\ gzen_orcamento' = InsereOrcamento(gzen_orcamento,
                                         NovoOrcamento(userId, mes, ano, 0, 0, 0))
                /\ hist' = Append(hist, Reg("findOrCreate", userId, "-", 0, NoRow,
                                            NovoOrcamento(userId, mes, ano, 0, 0, 0),
                                            mes, ano, TRUE, SemTags, f))
           ELSE /\ UNCHANGED gzen_orcamento
                /\ hist' = Append(hist, Reg("findOrCreate", userId, "-", 0, NoRow,
                                            IF achados # {} THEN CHOOSE o \in achados : TRUE ELSE NoRow,
                                            mes, ano, achados # {}, SemTags, f))
    /\ UNCHANGED <<gzen_receitas, gzen_despesas, gzen_accounts, gzen_cartao_credito,
                 gzen_despesa_tags, gzen_receita_tags, tz, emCurso>>

\* Orcamento.update: UPDATE of the row of (user_id, mes, ano) with the fields
\* given; .single() makes a call that matches no row an error
Orcamento_update(userId, mes, ano, updateData, f) ==
    /\ LET achados == BuscaOrcamento(gzen_orcamento, userId, mes, ano)
       IN  IF achados = {} \/ "gzen_orcamento" \in f
           THEN /\ UNCHANGED gzen_orcamento
                /\ hist' = Append(hist, Reg("updateOrcamento", userId, "-", 0, NoRow, NoRow, mes, ano, FALSE, SemTags, f))
           ELSE LET antigo == CHOOSE o \in achados : TRUE
                    orcamento == Aplica(antigo, updateData)
                IN  /\ gzen_orcamento' = (gzen_orcamento \ achados) \cup {orcamento}
                    /\ hist' = Append(hist, Reg("updateOrcamento", userId, "-", 0, antigo, orcamento, mes, ano, TRUE, SemTags, f))
    /\ UNCHANGED <<gzen_receitas, gzen_despesas, gzen_accounts, gzen_cartao_credito,
                 gzen_despesa_tags, gzen_receita_tags, tz, emCurso>>

\* Variant: the summary leaves out the filter on ativo
DoMes_semAtivo(tabela, campo, userId, mes, ano) ==
    LET conta(r) == /\ r.user_id = userId
                    /\ NoPeriodo(r[campo], mes, ano)
    IN  SelectSeq(tabela, conta)

\* The rows a monthly summary selects: the owner's active rows dated from the
\* first to the last day of the month
DoMes(tabela, campo, userId, mes, ano) ==
    LET conta(r) == /\ r.user_id = userId
                    /\ r.ativo = TRUE
                    /\ NoPeriodo(r[campo], mes, ano)
    IN  SelectSeq(tabela, conta)

ComStatus(linhas, status) ==
    LET conta(r) == r.status = status
    IN  SelectSeq(linhas, conta)

\* getResumoMensal of expenses; the breakdown by category is left out, the
\* model has no categories
Despesa_getResumoMensal(userId, mes, ano) ==
    /\ LET despesas == DoMes(gzen_despesas, "data_despesa", userId, mes, ano)
           fatura(d) == d.eh_pagamento_fatura
           outra(d) == ~d.eh_pagamento_fatura
           resumo == [total_confirmadas |-> SomaValor(ComStatus(despesas, "confirmada")),
                      total_pendentes |-> SomaValor(ComStatus(despesas, "pendente")),
                      total_pagamento_faturas |-> SomaValor(SelectSeq(despesas, fatura)),
                      total_outras |-> SomaValor(SelectSeq(despesas, outra)),
                      quantidade_despesas |-> Len(despesas)]
       IN  hist' = Append(hist, Reg("resumo", userId, "despesa", 0, NoRow, resumo, mes, ano, TRUE, SemTags, SemFalha))
    /\ UNCHANGED <<gzen_receitas, gzen_despesas, gzen_accounts, gzen_cartao_credito,
                   gzen_orcamento, gzen_despesa_tags, gzen_receita_tags, tz, emCurso>>

\* getResumoMensal of incomes; eh_salario is not a column of the model, so
\* total_salarios and total_outras are left out
Receita_getResumoMensal(userId, mes, ano) ==
    /\ LET receitas == DoMes(gzen_receitas, "data_receita", userId, mes, ano)
           resumo == [total_confirmadas |-> SomaValor(ComStatus(receitas, "confirmada")),
                      total_pendentes |-> SomaValor(ComStatus(receitas, "pendente")),
                      quantidade_receitas |-> Len(receitas)]
       IN  hist' = Append(hist, Reg("resumo", userId, "receita", 0, NoRow, resumo, mes, ano, TRUE, SemTags, SemFalha))
    /\ UNCHANGED <<gzen_receitas, gzen_despesas, gzen_accounts, gzen_cartao_credito,
                   gzen_orcamento, gzen_despesa_tags, gzen_receita_tags, tz, emCurso>>

\* ------------------------------------------------------------ request inputs
DespesaPayloads ==
    { [account_id |-> a, valor |-> v, data_despesa |-> d, status |-> s,
       eh_pagamento_fatura |-> c # SemCartao, cartao_origem_id |-> c] :
      a \in ContasNovas, v \in Valores, d \in Datas, s \in Status, c \in {SemCartao, Cartao} }

ReceitaPayloads ==
    { [account_id |-> a, valor |-> v, data_receita |-> d, status |-> s] :
      a \in ContasNovas, v \in Valores, d \in Datas, s \in Status }

Junta(p, q) == [k \in DOMAIN p \cup DOMAIN q |-> IF k \in DOMAIN p THEN p[k] ELSE q[k]]

\* Patches: a rename, a new amount, a new account, a new date, a new amount
\* and account; or a new status, alone or with amount, account and date.
PatchStatus == {[status |-> s] : s \in Status}

PatchCampos(campoData) ==
    {[nome |-> "n"]}
    \cup {[valor |-> v] : v \in Valores}
    \cup {[account_id |-> a] : a \in Contas}
    \cup {[k \in {campoData} |-> d] : d \in Datas}
    \cup {[valor |-> v, account_id |-> a] : v \in Valores, a \in Contas}

PatchTudo(campoData) ==
    {[k \in {"valor", "account_id", campoData} |->
        IF k = "valor" THEN v ELSE IF k = "account_id" THEN a ELSE d] :
      v \in Valores, a \in Contas, d \in Datas}

Patches(campoData) ==
    PatchCampos(campoData) \cup PatchStatus
    \cup {Junta(p, q) : p \in PatchStatus, q \in PatchTudo(campoData)}

\* A patch is sent to change what it names
Muda(row, updateData) ==
    \A k \in DOMAIN updateData \cap DOMAIN row : updateData[k] # row[k]

\* -------------------------------------------------------------------- system
\* The tables and the server before the first call
InitTabelas ==
    /\ gzen_receitas = <<>>
    /\ gzen_despesas = <<>>
    /\ gzen_accounts = SaldosIniciais
    /\ gzen_cartao_credito \in CartoesIniciais
    /\ gzen_orcamento = {}
    /\ gzen_despesa_tags = {}
    /\ gzen_receita_tags = {}
    /\ tz \in FusosHorarios
    /\ hist = <<>>

Init ==
    /\ InitTabelas
    /\ emCurso = <<>>

Livre == Len(hist) < MaxOps

CriaDespesa == Livre /\ NTx < MaxTx /\ \E u \in Users, d \in DespesaPayloads : Despesa_create(u, d, SemFalha)

AtualizaDespesa ==
    Livre /\ \E u \in Users, id \in 1..Len(gzen_despesas), p \in Patches("data_despesa") :
        /\ Muda(gzen_despesas[id], p)
        /\ Despesa_update(id, u, p, SemFalha)

RemoveDespesa == Livre /\ \E u \in Users, id \in 1..Len(gzen_despesas) : Despesa_delete(id, u, SemFalha)

CriaReceita == Livre /\ NTx < MaxTx /\ \E u \in Users, r \in ReceitaPayloads : Receita_create(u, r, SemFalha)

AtualizaReceita ==
    Livre /\ \E u \in Users, id \in 1..Len(gzen_receitas), p \in Patches("data_receita") :
        /\ Muda(gzen_receitas[id], p)
        /\ Receita_update(id, u, p, SemFalha)

RemoveReceita == Livre /\ \E u \in Users, id \in 1..Len(gzen_receitas) : Receita_delete(id, u, SemFalha)

Recalcula == Livre /\ \E u \in Users, p \in Periodos : Orcamento_recalcular(u, p.mes, p.ano, SemFalha)

BuscaOuCria == Livre /\ \E u \in Users, p \in Periodos : Orcamento_findOrCreateByPeriod(u, p.mes, p.ano, SemFalha)

Next ==
    \/ CriaDespesa
    \/ AtualizaDespesa
    \/ RemoveDespesa
    \/ CriaReceita
    \/ AtualizaReceita
    \/ RemoveReceita
    \/ Recalcula
    \/ BuscaOuCria

Spec == Init /\ [][Next]_vars

\* ------------------------------------------------- vocabulary of the claims
N == Len(hist)
Ult == hist[N]
Pen == hist[N - 1]

\* A total of the budget row of (userId, mes, ano); an absent row counts as 0
Total(orcs, userId, mes, ano, campo) ==
    LET achados == BuscaOrcamento(orcs, userId, mes, ano)
    IN  IF achados = {} THEN 0 ELSE (CHOOSE o \in achados : TRUE)[campo]

\* Sum of valor over the rows of a table that are active and confirmed
SomaDoMes(tabela, campo, userId, mes, ano) ==
    LET so(r) == /\ r.ativo /\ r.status = "confirmada" /\ r.user_id = userId
                 /\ r[campo].mes = mes /\ r[campo].ano = ano
    IN  SomaValor(SelectSeq(tabela, so))

SomaDaConta(tabela, conta) ==
    LET so(r) == r.ativo /\ r.status = "confirmada" /\ r.account_id = conta
    IN  SomaValor(SelectSeq(tabela, so))

\* Call i is a successful call of the given kind on the ledger `tipo`
Chamada(i, op, tipo) ==
    /\ i \in 1..N
    /\ hist[i].op = op
    /\ hist[i].tipo = tipo
    /\ hist[i].ok

\* The derived state right after call i
Apos(i) == IF i = N THEN Derivado ELSE hist[i + 1].pre

\* Call i changed nothing but the status of its row
SoStatus(i) ==
    /\ hist[i].nova.status # hist[i].antiga.status
    /\ hist[i].nova = [hist[i].antiga EXCEPT !.status = hist[i].nova.status]

\* ------------------------------------------------------------------ claims

\* C1: after every completed create, update, soft-delete or reconcile, every
\* budget row has saldo_atual = receita_total - despesa_total, also when an
\* incremental subtract brings a total to exactly 0.
C1_SaldoDoOrcamento ==
    \A o \in gzen_orcamento : o.saldo_atual = o.receita_total - o.despesa_total

\* C2: with no invoice payments, after any sequence of create, update and
\* soft-delete calls every account balance is its initial balance plus the
\* confirmed active incomes minus the confirmed active expenses on it.
C2_SaldoDasContas ==
    ( /\ \A i \in 1..N : hist[i].op \in {"create", "update", "delete"}
      /\ \A i \in 1..Len(gzen_despesas) : ~EhFatura(gzen_despesas[i]) )
    => \A a \in DOMAIN gzen_accounts :
          gzen_accounts[a] = SaldosIniciais[a] + SomaDaConta(gzen_receitas, a)
                                               - SomaDaConta(gzen_despesas, a)

\* C3: an update or delete of a transaction that is already soft-deleted
\* changes no account balance, no card limit and no budget row.
C3_ExcluidaNaoMuda ==
    ( /\ N > 0
      /\ Ult.op \in {"update", "delete"}
      /\ Ult.antiga # NoRow
      /\ ~Ult.antiga.ativo )
    => Derivado = Ult.pre

\* C4: creating a confirmed expense of v that is not an invoice payment takes
\* the account from B to B - v and the despesa_total of the expense's month
\* from E to E + v; soft-deleting it next returns both to B and E.
C4_CriaERemoveDespesa ==
    ( /\ N >= 2
      /\ Chamada(N - 1, "create", "despesa")
      /\ Pen.nova.status = "confirmada"
      /\ ~EhFatura(Pen.nova)
      /\ Chamada(N, "delete", "despesa")
      /\ Ult.id = Pen.id )
    => LET d == Pen.nova
           per == d.data_despesa
           B == Pen.pre.accounts[d.account_id]
           E == Total(Pen.pre.orcamento, d.user_id, per.mes, per.ano, "despesa_total")
       IN  /\ Ult.pre.accounts[d.account_id] = B - d.valor
           /\ Total(Ult.pre.orcamento, d.user_id, per.mes, per.ano, "despesa_total") = E + d.valor
           /\ gzen_accounts[d.account_id] = B
           /\ Total(gzen_orcamento, d.user_id, per.mes, per.ano, "despesa_total") = E

\* C5: confirming a pending expense lowers its account by v, setting it back
\* to pending raises it by v; after create (pending), confirm and un-confirm
\* every balance and every despesa_total is what it was before the create.
C5_PendenteConfirmadaPendente ==
    ( /\ N >= 2
      /\ Chamada(N - 1, "update", "despesa")
      /\ Pen.antiga.status = "pendente" /\ Pen.nova.status = "confirmada"
      /\ SoStatus(N - 1)
      /\ Chamada(N, "update", "despesa")
      /\ Ult.id = Pen.id
      /\ Ult.nova.status = "pendente"
      /\ SoStatus(N) )
    => LET d == Pen.nova
           B == Pen.pre.accounts[d.account_id]
       IN  /\ Ult.pre.accounts[d.account_id] = B - d.valor
           /\ gzen_accounts[d.account_id] = Ult.pre.accounts[d.account_id] + d.valor
           /\ gzen_accounts = Pen.pre.accounts
           /\ \A p \in Periodos :
                 Total(gzen_orcamento, d.user_id, p.mes, p.ano, "despesa_total")
                 = Total(Pen.pre.orcamento, d.user_id, p.mes, p.ano, "despesa_total")
           /\ ( /\ N >= 3
                /\ Chamada(N - 2, "create", "despesa")
                /\ hist[N - 2].id = Pen.id )
              => /\ Pen.pre.accounts = hist[N - 2].pre.accounts
                 /\ gzen_accounts = hist[N - 2].pre.accounts
                 /\ \A p \in Periodos :
                       Total(gzen_orcamento, d.user_id, p.mes, p.ano, "despesa_total")
                       = Total(hist[N - 2].pre.orcamento, d.user_id, p.mes, p.ano, "despesa_total")

C5_Witness ==
    /\ N = 3
    /\ Chamada(1, "create", "despesa") /\ hist[1].nova.status = "pendente"
    /\ Chamada(2, "update", "despesa") /\ hist[2].id = 1
    /\ hist[2].nova.status = "confirmada" /\ SoStatus(2)
    /\ Chamada(3, "update", "despesa") /\ hist[3].id = 1
    /\ hist[3].nova.status = "pendente" /\ SoStatus(3)
    /\ hist[3].pre.accounts # gzen_accounts

\* The create-then-delete of a confirmed invoice payment, as calls N-1 and N
PagaERemoveFatura ==
    /\ N >= 2
    /\ Chamada(N - 1, "create", "despesa")
    /\ Pen.nova.status = "confirmada"
    /\ EhFatura(Pen.nova)
    /\ Pen.nova.account_id \in DOMAIN Pen.pre.accounts
    /\ Pen.nova.cartao_origem_id \in DOMAIN Pen.pre.cartoes
    /\ Chamada(N, "delete", "despesa")
    /\ Ult.id = Pen.id

CartaoAntes == Pen.pre.cartoes[Pen.nova.cartao_origem_id]
DisponivelPago == Ult.pre.cartoes[Pen.nova.cartao_origem_id].limite_disponivel
DisponivelFinal == gzen_cartao_credito[Pen.nova.cartao_origem_id].limite_disponivel

\* C6: a confirmed invoice payment of v with available + v <= total takes the
\* funding account from B to B - v and the card from L to L + v; deleting it
\* returns the account to B and the card to L.
C6_FaturaIdaEVolta ==
    ( /\ PagaERemoveFatura
      /\ CartaoAntes.limite_disponivel + Pen.nova.valor <= CartaoAntes.limite_total )
    => LET d == Pen.nova
           B == Pen.pre.accounts[d.account_id]
       IN  /\ Ult.pre.accounts[d.account_id] = B - d.valor
           /\ DisponivelPago = CartaoAntes.limite_disponivel + d.valor
           /\ gzen_accounts[d.account_id] = B
           /\ DisponivelFinal = CartaoAntes.limite_disponivel

C6_Witness ==
    /\ PagaERemoveFatura
    /\ CartaoAntes.limite_disponivel + Pen.nova.valor <= CartaoAntes.limite_total
    /\ DisponivelPago > CartaoAntes.limite_disponivel

\* C7 as stated: when available + v > total the payment sets available to
\* total, the delete sets it to max(total - v, 0), and that is lower than the
\* available limit before the payment.
C7_TetoPerdeLimite ==
    ( /\ PagaERemoveFatura
      /\ CartaoAntes.limite_disponivel + Pen.nova.valor > CartaoAntes.limite_total )
    => /\ DisponivelPago = CartaoAntes.limite_total
       /\ DisponivelFinal = Max(CartaoAntes.limite_total - Pen.nova.valor, 0)
       /\ DisponivelFinal < CartaoAntes.limite_disponivel

\* C7 as amended: the same, but the final limit is lower than the limit before
\* the payment only when that limit was above 0; from 0 it returns to 0.
C7_TetoNaoDevolveLimite ==
    ( /\ PagaERemoveFatura
      /\ CartaoAntes.limite_disponivel + Pen.nova.valor > CartaoAntes.limite_total )
    => /\ DisponivelPago = CartaoAntes.limite_total
       /\ DisponivelFinal = Max(CartaoAntes.limite_total - Pen.nova.valor, 0)
       /\ DisponivelFinal <= CartaoAntes.limite_disponivel
       /\ CartaoAntes.limite_disponivel > 0 => DisponivelFinal < CartaoAntes.limite_disponivel
       /\ CartaoAntes.limite_disponivel = 0 => DisponivelFinal = 0

C7_Witness ==
    /\ PagaERemoveFatura
    /\ CartaoAntes.limite_disponivel + Pen.nova.valor > CartaoAntes.limite_total
    /\ CartaoAntes.limite_disponivel > 0
    /\ DisponivelFinal < CartaoAntes.limite_disponivel

\* C8: an update that changes the amount of a confirmed non-invoice expense
\* and keeps it confirmed leaves the account at balance + old - new; when the
\* account changes too, the old one gains old and the new one loses new.
C8_MudaValorConfirmada ==
    ( /\ N >= 1
      /\ Chamada(N, "update", "despesa")
      /\ Ult.antiga.status = "confirmada" /\ Ult.nova.status = "confirmada"
      /\ ~EhFatura(Ult.antiga) /\ ~EhFatura(Ult.nova)
      /\ Ult.antiga.valor # Ult.nova.valor )
    => LET velha == Ult.antiga.account_id
           nova == Ult.nova.account_id
       IN  IF velha = nova
           THEN gzen_accounts[nova] = Ult.pre.accounts[nova] + Ult.antiga.valor - Ult.nova.valor
           ELSE /\ gzen_accounts[velha] = Ult.pre.accounts[velha] + Ult.antiga.valor
                /\ gzen_accounts[nova] = Ult.pre.accounts[nova] - Ult.nova.valor

C8_Witness ==
    /\ N >= 1
    /\ Chamada(N, "update", "despesa")
    /\ Ult.antiga.status = "confirmada" /\ Ult.nova.status = "confirmada"
    /\ ~EhFatura(Ult.antiga) /\ ~EhFatura(Ult.nova)
    /\ Ult.antiga.valor # Ult.nova.valor
    /\ Ult.antiga.account_id # Ult.nova.account_id

\* C9: recalcular leaves exactly one row for its key, whose receita_total and
\* despesa_total are the sums of valor over the owner's active confirmed
\* incomes and expenses dated in that month, whatever the row held before;
\* a second run right after the first leaves the same totals.
C9_RecalcularSomaLancamentos ==
    ( N >= 1 /\ Chamada(N, "recalcular", "-") )
    => LET achados == BuscaOrcamento(gzen_orcamento, Ult.user_id, Ult.mes, Ult.ano)
       IN  /\ Cardinality(achados) = 1
           /\ \A o \in achados :
                 /\ o.receita_total =
                      SomaDoMes(gzen_receitas, "data_receita", Ult.user_id, Ult.mes, Ult.ano)
                 /\ o.despesa_total =
                      SomaDoMes(gzen_despesas, "data_despesa", Ult.user_id, Ult.mes, Ult.ano)
           /\ ( /\ N >= 2
                /\ Chamada(N - 1, "recalcular", "-")
                /\ Pen.user_id = Ult.user_id /\ Pen.mes = Ult.mes /\ Pen.ano = Ult.ano )
              => /\ Total(gzen_orcamento, Ult.user_id, Ult.mes, Ult.ano, "receita_total")
                    = Total(Ult.pre.orcamento, Ult.user_id, Ult.mes, Ult.ano, "receita_total")
                 /\ Total(gzen_orcamento, Ult.user_id, Ult.mes, Ult.ano, "despesa_total")
                    = Total(Ult.pre.orcamento, Ult.user_id, Ult.mes, Ult.ano, "despesa_total")

C9_Witness ==
    /\ N = 3
    /\ Chamada(2, "recalcular", "-") /\ Chamada(3, "recalcular", "-")
    /\ hist[2].mes = hist[3].mes /\ hist[2].ano = hist[3].ano
    /\ Total(gzen_orcamento, Ult.user_id, Ult.mes, Ult.ano, "despesa_total") > 0
    /\ Total(hist[2].pre.orcamento, Ult.user_id, Ult.mes, Ult.ano, "despesa_total")
       # Total(gzen_orcamento, Ult.user_id, Ult.mes, Ult.ano, "despesa_total")

\* C10: creating an income or expense that is pendente or cancelada inserts
\* the row and changes no balance, no card limit and no budget row.
C10_CriaNaoConfirmada ==
    ( /\ N >= 1
      /\ Ult.op = "create" /\ Ult.ok
      /\ Ult.nova.status # "confirmada" )
    => /\ Derivado = Ult.pre
       /\ Ult.tipo = "despesa" =>
             Len(gzen_despesas) = Ult.id /\ gzen_despesas[Ult.id] = Ult.nova
       /\ Ult.tipo = "receita" =>
             Len(gzen_receitas) = Ult.id /\ gzen_receitas[Ult.id] = Ult.nova

C10_Witness ==
    /\ N >= 2
    /\ Ult.op = "create" /\ Ult.ok
    /\ Ult.nova.status = "cancelada"
    /\ Ult.pre.orcamento # {}

\* ------------------------------------------- vocabulary of the update claims
\* The budget column, the date column and the sign of the account movement of
\* a ledger: an expense takes valor from its account, an income adds it.
CampoTotal(tipo) == IF tipo = "despesa" THEN "despesa_total" ELSE "receita_total"
CampoData(tipo) == IF tipo = "despesa" THEN "data_despesa" ELSE "data_receita"
Sinal(tipo) == IF tipo = "despesa" THEN -1 ELSE 1

RECURSIVE SomaTotais(_, _)
SomaTotais(orcs, campo) ==
    IF orcs = {} THEN 0
    ELSE LET o == CHOOSE x \in orcs : TRUE
         IN  o[campo] + SomaTotais(orcs \ {o}, campo)

\* The last call is a successful update of a ledger row
UltUpdate == N >= 1 /\ Ult.op = "update" /\ Ult.ok

\* The last update changed the amount, the account or the date of its row
UltMudaCampos ==
    \/ Ult.nova.valor # Ult.antiga.valor
    \/ Ult.nova.account_id # Ult.antiga.account_id
    \/ Ult.nova[CampoData(Ult.tipo)] # Ult.antiga[CampoData(Ult.tipo)]

MesmoPeriodo(d, e) == d.mes = e.mes /\ d.ano = e.ano

\* The total of the ledger's column in the period of date d, before and after
\* the last call
TotalAntes(d) == Total(Ult.pre.orcamento, Ult.user_id, d.mes, d.ano, CampoTotal(Ult.tipo))
TotalDepois(d) == Total(gzen_orcamento, Ult.user_id, d.mes, d.ano, CampoTotal(Ult.tipo))

\* C11: an update whose old and new status are both other than confirmada
\* changes no account balance, no card limit and no budget row, whatever it
\* changes in amount, account or date.
C11_NaoConfirmadaSemEfeito ==
    ( /\ UltUpdate
      /\ Ult.antiga.status # "confirmada"
      /\ Ult.nova.status # "confirmada" )
    => Derivado = Ult.pre

C11_Witness ==
    /\ UltUpdate
    /\ Ult.antiga.status = "pendente" /\ Ult.nova.status = "cancelada"
    /\ Ult.nova.valor # Ult.antiga.valor
    /\ Ult.nova.account_id # Ult.antiga.account_id
    /\ Ult.nova[CampoData(Ult.tipo)] # Ult.antiga[CampoData(Ult.tipo)]
    /\ Ult.pre.orcamento # {}

\* C12: an update that takes a confirmed row to pendente or cancelada and also
\* changes amount, account or date gives the old account the old amount back
\* and lowers the total of the old date's month by the old amount; the new
\* account and the new date's month are not touched.
C12_ReverteComValoresAntigos ==
    ( /\ UltUpdate
      /\ Ult.antiga.status = "confirmada"
      /\ Ult.nova.status # "confirmada"
      /\ UltMudaCampos )
    => LET a == Ult.antiga
           n == Ult.nova
           dA == a[CampoData(Ult.tipo)]
           dN == n[CampoData(Ult.tipo)]
       IN  /\ gzen_accounts[a.account_id]
                = Ult.pre.accounts[a.account_id] - Sinal(Ult.tipo) * a.valor
           /\ TotalDepois(dA) = TotalAntes(dA) - a.valor
           /\ n.account_id # a.account_id
                => gzen_accounts[n.account_id] = Ult.pre.accounts[n.account_id]
           /\ ~MesmoPeriodo(dN, dA) => TotalDepois(dN) = TotalAntes(dN)

\* C13: an update that takes a pendente or cancelada row to confirmada and also
\* changes amount, account or date moves the new account by the new amount and
\* raises the total of the new date's month by the new amount, once; the old
\* account and the old date's month are not touched.
C13_AplicaComValoresNovos ==
    ( /\ UltUpdate
      /\ Ult.antiga.status # "confirmada"
      /\ Ult.nova.status = "confirmada"
      /\ UltMudaCampos )
    => LET a == Ult.antiga
           n == Ult.nova
           dA == a[CampoData(Ult.tipo)]
           dN == n[CampoData(Ult.tipo)]
       IN  /\ gzen_accounts[n.account_id]
                = Ult.pre.accounts[n.account_id] + Sinal(Ult.tipo) * n.valor
           /\ TotalDepois(dN) = TotalAntes(dN) + n.valor
           /\ n.account_id # a.account_id
                => gzen_accounts[a.account_id] = Ult.pre.accounts[a.account_id]
           /\ ~MesmoPeriodo(dN, dA) => TotalDepois(dA) = TotalAntes(dA)

\* C14: an update that keeps a row confirmada and moves its date to another
\* month lowers the old month's total by the old amount and raises the new
\* month's total by the new amount, as two rows written.
C14_MudaDeMes ==
    ( /\ UltUpdate
      /\ Ult.antiga.status = "confirmada"
      /\ Ult.nova.status = "confirmada"
      /\ ~MesmoPeriodo(Ult.nova[CampoData(Ult.tipo)], Ult.antiga[CampoData(Ult.tipo)]) )
    => LET dA == Ult.antiga[CampoData(Ult.tipo)]
           dN == Ult.nova[CampoData(Ult.tipo)]
       IN  /\ TotalDepois(dA) = TotalAntes(dA) - Ult.antiga.valor
           /\ TotalDepois(dN) = TotalAntes(dN) + Ult.nova.valor

\* The last call is a successful soft-delete of a row that was active
UltDelete == N >= 1 /\ Ult.op = "delete" /\ Ult.ok /\ Ult.antiga.ativo

LinhaDe(tipo, id) == IF tipo = "despesa" THEN gzen_despesas[id] ELSE gzen_receitas[id]

\* C15: soft-deleting a pendente or cancelada row sets ativo = false and
\* changes no balance, card limit or budget row; soft-deleting a confirmada
\* row reverses its effect with the row as read before the delete: the account
\* gets the amount back, the budget totals drop by it, and the card of an
\* invoice payment loses it from its available limit, not below 0.
C15_RemoveReverteSeConfirmada ==
    UltDelete
    => LET a == Ult.antiga
       IN  /\ LinhaDe(Ult.tipo, Ult.id) = [a EXCEPT !.ativo = FALSE]
           /\ a.status # "confirmada" => Derivado = Ult.pre
           /\ a.status = "confirmada" =>
                 /\ gzen_accounts = [Ult.pre.accounts EXCEPT
                                       ![a.account_id] = @ - Sinal(Ult.tipo) * a.valor]
                 /\ SomaTotais(gzen_orcamento, CampoTotal(Ult.tipo))
                      = SomaTotais(Ult.pre.orcamento, CampoTotal(Ult.tipo)) - a.valor
                 /\ gzen_cartao_credito =
                      IF Ult.tipo = "despesa" /\ EhFatura(a)
                      THEN [Ult.pre.cartoes EXCEPT ![a.cartao_origem_id].limite_disponivel =
                                Max(@ - a.valor, 0)]
                      ELSE Ult.pre.cartoes

C15_Witness ==
    /\ UltDelete
    /\ Ult.antiga.status = "cancelada"
    /\ Ult.pre.orcamento # {}
    /\ ~LinhaDe(Ult.tipo, Ult.id).ativo

\* ---------------------------------- storage failures and calls without a row
\* The same handlers, called with writes that fail, with an account that does
\* not exist, with tags, by another user and with ids that no row has.
ContaAusente == "A9"
Intruso == "u2"
Tags == {"t1"}
TabelaDe(tipo) == IF tipo = "despesa" THEN "gzen_despesas" ELSE "gzen_receitas"

FalhasDespesa ==
    { SemFalha, {"gzen_despesas"}, {"gzen_despesa_tags"}, {"gzen_accounts"},
      {"gzen_cartao_credito"}, {"gzen_orcamento"}, {"gzen_accounts", "gzen_orcamento"} }

FalhasReceita ==
    { SemFalha, {"gzen_receitas"}, {"gzen_receita_tags"}, {"gzen_accounts"}, {"gzen_orcamento"} }

\* A payload as it is, with tags, or on the account that does not exist
Variantes(payloads) ==
    payloads
    \cup {Junta([tags |-> Tags], p) : p \in payloads}
    \cup {Junta([account_id |-> ContaAusente], p) : p \in payloads}

PatchesSemAlvo == PatchStatus \cup {[valor |-> v] : v \in Valores}

InitFalha ==
    /\ Init
    /\ gzen_cartao_credito[Cartao].limite_disponivel > 0

LivreFalha == Len(hist) < MaxOps - 1

CriaDespesaFalha ==
    LivreFalha /\ NTx < MaxTx - 1 /\
    \E u \in Users, d \in Variantes(DespesaPayloads), f \in FalhasDespesa : Despesa_create(u, d, f)

AtualizaDespesaFalha ==
    LivreFalha /\
    ( \/ \E u \in Users, id \in 1..Len(gzen_despesas), p \in Patches("data_despesa"),
            f \in FalhasDespesa \ {{"gzen_despesa_tags"}} :
            /\ Muda(gzen_despesas[id], p)
            /\ Despesa_update(id, u, p, f)
      \/ \E u \in Users \cup {Intruso}, id \in 1..(Len(gzen_despesas) + 1), p \in PatchesSemAlvo :
            /\ u = Intruso \/ id > Len(gzen_despesas)
            /\ Despesa_update(id, u, p, SemFalha) )

RemoveDespesaFalha ==
    LivreFalha /\
    ( \/ \E u \in Users, id \in 1..Len(gzen_despesas),
            f \in FalhasDespesa \ {{"gzen_despesa_tags"}} : Despesa_delete(id, u, f)
      \/ \E u \in Users \cup {Intruso}, id \in 1..(Len(gzen_despesas) + 1) :
            /\ u = Intruso \/ id > Len(gzen_despesas)
            /\ Despesa_delete(id, u, SemFalha) )

CriaReceitaFalha ==
    LivreFalha /\ NTx < MaxTx - 1 /\
    \E u \in Users, r \in Variantes(ReceitaPayloads), f \in FalhasReceita : Receita_create(u, r, f)

AtualizaReceitaFalha ==
    LivreFalha /\
    ( \/ \E u \in Users, id \in 1..Len(gzen_receitas), p \in Patches("data_receita"),
            f \in FalhasReceita \ {{"gzen_receita_tags"}} :
            /\ Muda(gzen_receitas[id], p)
            /\ Receita_update(id, u, p, f)
      \/ \E u \in Users \cup {Intruso}, id \in 1..(Len(gzen_receitas) + 1), p \in PatchesSemAlvo :
            /\ u = Intruso \/ id > Len(gzen_receitas)
            /\ Receita_update(id, u, p, SemFalha) )

RemoveReceitaFalha ==
    LivreFalha /\
    ( \/ \E u \in Users, id \in 1..Len(gzen_receitas),
            f \in FalhasReceita \ {{"gzen_receita_tags"}} : Receita_delete(id, u, f)
      \/ \E u \in Users \cup {Intruso}, id \in 1..(Len(gzen_receitas) + 1) :
            /\ u = Intruso \/ id > Len(gzen_receitas)
            /\ Receita_delete(id, u, SemFalha) )

NextFalha ==
    \/ CriaDespesaFalha
    \/ AtualizaDespesaFalha
    \/ RemoveDespesaFalha
    \/ CriaReceitaFalha
    \/ AtualizaReceitaFalha
    \/ RemoveReceitaFalha

SpecFalha == InitFalha /\ [][NextFalha]_vars

\* ------------------------------------------------ claims about failed writes
\* The last call is a ledger call that found its row (a create needs none)
UltComAlvo ==
    /\ N >= 1
    /\ Ult.op \in {"create", "update", "delete"}
    /\ Ult.op = "create" \/ Ult.antiga # NoRow

TabelaTags(tipo) == IF tipo = "despesa" THEN "gzen_despesa_tags" ELSE "gzen_receita_tags"

Linhas(tipo) == IF tipo = "despesa" THEN gzen_despesas ELSE gzen_receitas

\* The tag rows of the row the last call was about
TagsGravadas ==
    IF Ult.tipo = "despesa"
    THEN {t.tag_id : t \in {x \in gzen_despesa_tags : x.despesa_id = Ult.id}}
    ELSE {t.tag_id : t \in {x \in gzen_receita_tags : x.receita_id = Ult.id}}

\* C16: when the write of the transaction row fails, the call returns an
\* error, the row is not written, and no account balance, card limit, budget
\* row or tag row is changed by the call.
C16_FalhaPrimariaSemEfeito ==
    ( /\ UltComAlvo
      /\ TabelaDe(Ult.tipo) \in Ult.falha )
    => /\ ~Ult.ok
       /\ Derivado = Ult.pre
       /\ Ult.op = "create" => Len(Linhas(Ult.tipo)) = Ult.id - 1
       /\ Ult.op # "create" => LinhaDe(Ult.tipo, Ult.id) = Ult.antiga

C16_Witness ==
    /\ UltComAlvo
    /\ TabelaDe(Ult.tipo) \in Ult.falha
    /\ Ult.op = "delete"
    /\ Ult.antiga.status = "confirmada" /\ Ult.antiga.ativo
    /\ Ult.pre.orcamento # {}

\* What applying the confirmed row r leaves behind where the writes did not
\* fail: the account moved by valor, the budget totals up by valor, the card
\* of an invoice payment up by valor (not above its total).
EfeitoAplicado(r) ==
    /\ ("gzen_accounts" \notin Ult.falha /\ r.account_id \in DOMAIN Ult.pre.accounts)
         => gzen_accounts[r.account_id] = Ult.pre.accounts[r.account_id] + Sinal(Ult.tipo) * r.valor
    /\ "gzen_orcamento" \notin Ult.falha
         => SomaTotais(gzen_orcamento, CampoTotal(Ult.tipo))
            = SomaTotais(Ult.pre.orcamento, CampoTotal(Ult.tipo)) + r.valor
    /\ (Ult.tipo = "despesa" /\ EhFatura(r) /\ "gzen_cartao_credito" \notin Ult.falha)
         => gzen_cartao_credito[r.cartao_origem_id].limite_disponivel
            = Min(Ult.pre.cartoes[r.cartao_origem_id].limite_disponivel + r.valor,
                  Ult.pre.cartoes[r.cartao_origem_id].limite_total)

\* What reversing the confirmed row r leaves behind where the writes did not
\* fail; the budget row of its period is written (a row the period lacks is
\* inserted).
EfeitoRevertido(r) ==
    /\ ("gzen_accounts" \notin Ult.falha /\ r.account_id \in DOMAIN Ult.pre.accounts)
         => gzen_accounts[r.account_id] = Ult.pre.accounts[r.account_id] - Sinal(Ult.tipo) * r.valor
    /\ "gzen_orcamento" \notin Ult.falha
         => LET p == MesAnoLocal(r[CampoData(Ult.tipo)])
            IN  IF BuscaOrcamento(Ult.pre.orcamento, Ult.user_id, p.mes, p.ano) # {}
                THEN SomaTotais(gzen_orcamento, CampoTotal(Ult.tipo))
                     = SomaTotais(Ult.pre.orcamento, CampoTotal(Ult.tipo)) - r.valor
                ELSE gzen_orcamento # Ult.pre.orcamento
    /\ (Ult.tipo = "despesa" /\ EhFatura(r) /\ "gzen_cartao_credito" \notin Ult.falha)
         => gzen_cartao_credito[r.cartao_origem_id].limite_disponivel
            = Max(Ult.pre.cartoes[r.cartao_origem_id].limite_disponivel - r.valor, 0)

C18_ContaAusenteSemErro ==
    ( /\ UltComAlvo
      /\ Ult.falha = SemFalha )
    => /\ ( /\ Ult.op = "create"
            /\ Ult.nova.status = "confirmada"
            /\ Ult.nova.account_id \notin DOMAIN Ult.pre.accounts )
          => /\ Ult.ok
             /\ gzen_accounts = Ult.pre.accounts
             /\ SomaTotais(gzen_orcamento, CampoTotal(Ult.tipo))
                  = SomaTotais(Ult.pre.orcamento, CampoTotal(Ult.tipo)) + Ult.nova.valor
       /\ ( /\ Ult.op = "delete"
            /\ Ult.antiga.status = "confirmada"
            /\ Ult.antiga.account_id \notin DOMAIN Ult.pre.accounts )
          => /\ Ult.ok
             /\ gzen_accounts = Ult.pre.accounts
             /\ gzen_orcamento # Ult.pre.orcamento

C18_Witness ==
    /\ N >= 2
    /\ Ult.falha = SemFalha /\ Ult.ok
    /\ Ult.op = "delete" /\ Ult.antiga.status = "confirmada"
    /\ Ult.antiga.account_id = ContaAusente
    /\ Pen.op = "create" /\ Pen.ok /\ Pen.falha = SemFalha /\ Pen.id = Ult.id /\ Pen.tipo = Ult.tipo
    /\ Ult.pre.orcamento # {}

\* The last call is an update or delete whose id no row has, or whose row
\* belongs to another user
UltSemAlvo ==
    /\ N >= 1
    /\ Ult.op \in {"update", "delete"}
    /\ \/ Ult.id \notin 1..Len(Linhas(Ult.tipo))
       \/ Linhas(Ult.tipo)[Ult.id].user_id # Ult.user_id

\* C19: update and delete on an id that does not exist, or whose row belongs
\* to another owner, return an error and leave every transaction row, account
\* balance, card limit and budget row unchanged.
C19_SemAlvoNadaMuda ==
    [][ (hist' # hist /\ UltSemAlvo')
        => /\ ~(Ult.ok)'
           /\ UNCHANGED <<gzen_receitas, gzen_despesas, gzen_accounts, gzen_cartao_credito,
                          gzen_orcamento, gzen_despesa_tags, gzen_receita_tags>> ]_vars

C19_Witness ==
    /\ UltSemAlvo
    /\ Ult.user_id = Intruso
    /\ Ult.op = "update" /\ Ult.tipo = "despesa"
    /\ Ult.id \in 1..Len(gzen_despesas)
    /\ gzen_despesas[Ult.id].status = "confirmada" /\ gzen_despesas[Ult.id].ativo

\* --------------------------------------------------------- concurrent calls
\* Two calls in flight at once, each a create, a findOrCreateByPeriod or a
\* recalcular.  Every await of a handler is a step of its own: the insert of
\* the row, the select of the account, the update of the account, the select
\* of the budget row, the insert or update of the budget row; the two sums
\* and the upsert of recalcular.  emCurso[p] holds the position of call p and
\* what it has read.
Procs == {"p1", "p2"}

Ocioso == [pc |-> "ocioso", tipo |-> "-", id |-> 0, linha |-> NoRow,
           conta |-> [achou |-> FALSE, saldo |-> 0], orcamento |-> {},
           soma |-> [receita |-> 0, despesa |-> 0]]

\* Confirmed expenses that are not invoice payments, and confirmed incomes
DespesasConcorrentes ==
    {d \in DespesaPayloads : d.status = "confirmada" /\ ~d.eh_pagamento_fatura}

ReceitasConcorrentes == {r \in ReceitaPayloads : r.status = "confirmada"}

\* The budget table before the two calls: empty, or holding the zeroed rows
\* that findOrCreateByPeriod has inserted for both periods
OrcamentosIniciais ==
    { {}, {NovoOrcamento(u, p.mes, p.ano, 0, 0, 0) : u \in Users, p \in Periodos} }

InitConc ==
    /\ gzen_receitas = <<>>
    /\ gzen_despesas = <<>>
    /\ gzen_accounts = SaldosIniciais
    /\ gzen_cartao_credito \in CartoesIniciais
    /\ gzen_orcamento \in OrcamentosIniciais
    /\ gzen_despesa_tags = {}
    /\ gzen_receita_tags = {}
    /\ tz \in FusosHorarios
    /\ hist = <<>>
    /\ emCurso = [p \in Procs |-> Ocioso]

Operacao(tipo) == IF tipo = "despesa" THEN "subtract" ELSE "add"

\* create: the insert of the row (Despesa.js 19-27, Receita.js 19-27)
Conc_insert(p) ==
    /\ emCurso[p].pc = "ocioso"
    /\ \E u \in Users :
         \/ \E d \in DespesasConcorrentes :
               LET despesa == [user_id |-> u,
                               account_id |-> d.account_id,
                               valor |-> d.valor,
                               data_despesa |-> DataISO(d.data_despesa),
                               status |-> d.status,
                               ativo |-> TRUE,
                               eh_pagamento_fatura |-> d.eh_pagamento_fatura,
                               cartao_origem_id |-> d.cartao_origem_id]
               IN  /\ gzen_despesas' = Append(gzen_despesas, despesa)
                   /\ emCurso' = [emCurso EXCEPT ![p] =
                          [Ocioso EXCEPT !.pc = "lerConta", !.tipo = "despesa",
                                         !.id = Len(gzen_despesas) + 1, !.linha = despesa]]
                   /\ UNCHANGED gzen_receitas
         \/ \E r \in ReceitasConcorrentes :
               LET receita == [user_id |-> u,
                               account_id |-> r.account_id,
                               valor |-> r.valor,
                               data_receita |-> DataISO(r.data_receita),
                               status |-> r.status,
                               ativo |-> TRUE]
               IN  /\ gzen_receitas' = Append(gzen_receitas, receita)
                   /\ emCurso' = [emCurso EXCEPT ![p] =
                          [Ocioso EXCEPT !.pc = "lerConta", !.tipo = "receita",
                                         !.id = Len(gzen_receitas) + 1, !.linha = receita]]
                   /\ UNCHANGED gzen_despesas
    /\ UNCHANGED <<gzen_accounts, gzen_cartao_credito, gzen_orcamento,
                   gzen_despesa_tags, gzen_receita_tags, tz, hist>>

\* updateAccountBalance: select saldo_atual of the account
Conc_lerConta(p) ==
    /\ emCurso[p].pc = "lerConta"
    /\ LET a == emCurso[p].linha.account_id
       IN  emCurso' = [emCurso EXCEPT ![p].pc = "gravarConta",
                                      ![p].conta =
                                          IF a \in DOMAIN gzen_accounts
                                          THEN [achou |-> TRUE, saldo |-> gzen_accounts[a]]
                                          ELSE [achou |-> FALSE, saldo |-> 0]]
    /\ UNCHANGED <<gzen_receitas, gzen_despesas, gzen_accounts, gzen_cartao_credito,
                   gzen_orcamento, gzen_despesa_tags, gzen_receita_tags, tz, hist>>

\* Variant: the update adds to the balance stored now (saldo_atual = saldo_atual + v)
Conc_gravarConta_incremento(p) ==
    /\ emCurso[p].pc = "gravarConta"
    /\ LET c == emCurso[p]
           a == c.linha.account_id
       IN  gzen_accounts' =
              IF c.conta.achou
              THEN [gzen_accounts EXCEPT ![a] = @ + Sinal(c.tipo) * c.linha.valor]
              ELSE gzen_accounts
    /\ emCurso' = [emCurso EXCEPT ![p].pc = "lerOrcamento"]
    /\ UNCHANGED <<gzen_receitas, gzen_despesas, gzen_cartao_credito,
                   gzen_orcamento, gzen_despesa_tags, gzen_receita_tags, tz, hist>>

\* updateAccountBalance: update saldo_atual to the balance read plus or minus
\* valor, where id = accountId and nothing else
Conc_gravarConta(p) ==
    /\ emCurso[p].pc = "gravarConta"
    /\ LET c == emCurso[p]
           a == c.linha.account_id
           novoSaldo == IF Operacao(c.tipo) = "add"
                        THEN c.conta.saldo + c.linha.valor
                        ELSE c.conta.saldo - c.linha.valor
       IN  gzen_accounts' =
              IF c.conta.achou /\ a \in DOMAIN gzen_accounts
              THEN [gzen_accounts EXCEPT ![a] = novoSaldo]
              ELSE gzen_accounts
    /\ emCurso' = [emCurso EXCEPT ![p].pc = "lerOrcamento"]
    /\ UNCHANGED <<gzen_receitas, gzen_despesas, gzen_cartao_credito,
                   gzen_orcamento, gzen_despesa_tags, gzen_receita_tags, tz, hist>>

\* updateOrcamento: select the row of (user_id, mes, ano)
Conc_lerOrcamento(p) ==
    /\ emCurso[p].pc = "lerOrcamento"
    /\ LET c == emCurso[p]
           per == MesAnoLocal(c.linha[CampoData(c.tipo)])
       IN  emCurso' = [emCurso EXCEPT ![p].pc = "gravarOrcamento",
                                      ![p].orcamento =
                                          BuscaOrcamento(gzen_orcamento, c.linha.user_id,
                                                         per.mes, per.ano)]
    /\ UNCHANGED <<gzen_receitas, gzen_despesas, gzen_accounts, gzen_cartao_credito,
                   gzen_orcamento, gzen_despesa_tags, gzen_receita_tags, tz, hist>>

\* Variant: the update works on the totals stored now, in one statement
\* (receita_total = receita_total + v, saldo_atual = receita_total - despesa_total)
Conc_gravarOrcamento_incremento(p) ==
    /\ emCurso[p].pc = "gravarOrcamento"
    /\ LET c == emCurso[p]
           per == MesAnoLocal(c.linha[CampoData(c.tipo)])
           valor == c.linha.valor
           atuais == BuscaOrcamento(gzen_orcamento, c.linha.user_id, per.mes, per.ano)
       IN  gzen_orcamento' =
              IF atuais = {}
              THEN InsereOrcamento(gzen_orcamento,
                       NovoOrcamento(c.linha.user_id, per.mes, per.ano,
                                     IF c.tipo = "receita" THEN valor ELSE 0,
                                     IF c.tipo = "despesa" THEN valor ELSE 0,
                                     IF c.tipo = "receita" THEN valor ELSE -valor))
              ELSE (gzen_orcamento \ atuais) \cup
                   { [o EXCEPT ![CampoTotal(c.tipo)] = @ + valor,
                               !.saldo_atual = o.receita_total - o.despesa_total
                                               + Sinal(c.tipo) * valor] : o \in atuais }
    /\ emCurso' = [emCurso EXCEPT ![p].pc = "fim"]
    /\ UNCHANGED <<gzen_receitas, gzen_despesas, gzen_accounts, gzen_cartao_credito,
                   gzen_despesa_tags, gzen_receita_tags, tz, hist>>

\* updateOrcamento: insert the row when none was read, else update the row
\* read, by id, with totals computed from what was read
Conc_gravarOrcamento(p) ==
    /\ emCurso[p].pc = "gravarOrcamento"
    /\ LET c == emCurso[p]
           per == MesAnoLocal(c.linha[CampoData(c.tipo)])
           valor == c.linha.valor
       IN  gzen_orcamento' =
              IF c.orcamento = {}
              THEN InsereOrcamento(gzen_orcamento,
                       NovoOrcamento(c.linha.user_id, per.mes, per.ano,
                                     IF c.tipo = "receita" THEN valor ELSE 0,
                                     IF c.tipo = "despesa" THEN valor ELSE 0,
                                     IF c.tipo = "receita" THEN valor ELSE -valor))
              ELSE LET orcamento == CHOOSE o \in c.orcamento : TRUE
                       operation == "add"
                       multiplicador == IF operation = "add" THEN 1 ELSE -1
                       valorAtualizado == valor * multiplicador
                       updates == IF c.tipo = "receita"
                                  THEN [receita_total |-> orcamento.receita_total + valorAtualizado]
                                  ELSE [despesa_total |-> orcamento.despesa_total + valorAtualizado]
                       novaReceita == Ou(updates, "receita_total", orcamento.receita_total)
                       novaDespesa == Ou(updates, "despesa_total", orcamento.despesa_total)
                       atuais == BuscaOrcamento(gzen_orcamento, orcamento.user_id,
                                                orcamento.mes, orcamento.ano)
                   IN  (gzen_orcamento \ atuais) \cup
                       { [k \in DOMAIN o |->
                             IF k = "saldo_atual" THEN novaReceita - novaDespesa
                             ELSE IF k \in DOMAIN updates THEN updates[k]
                             ELSE o[k]] : o \in atuais }
    /\ emCurso' = [emCurso EXCEPT ![p].pc = "fim"]
    /\ UNCHANGED <<gzen_receitas, gzen_despesas, gzen_accounts, gzen_cartao_credito,
                   gzen_despesa_tags, gzen_receita_tags, tz, hist>>

\* findOrCreateByPeriod: select the row of (user_id, mes, ano); a row found
\* is returned and the call is over
Conc_findOrCreateByPeriod_select(p) ==
    /\ emCurso[p].pc = "ocioso"
    /\ \E u \in Users, per \in Periodos :
         LET achados == BuscaOrcamento(gzen_orcamento, u, per.mes, per.ano)
         IN  emCurso' = [emCurso EXCEPT ![p] =
                 [Ocioso EXCEPT !.pc = IF achados = {} THEN "inserirOrcamento" ELSE "fim",
                                !.tipo = "findOrCreate",
                                !.linha = [user_id |-> u, mes |-> per.mes, ano |-> per.ano],
                                !.orcamento = achados]]
    /\ UNCHANGED <<gzen_receitas, gzen_despesas, gzen_accounts, gzen_cartao_credito,
                   gzen_orcamento, gzen_despesa_tags, gzen_receita_tags, tz, hist>>

\* findOrCreateByPeriod: insert the zeroed row; under the unique key the
\* insert fails when the row has appeared meanwhile, and null is returned
Conc_findOrCreateByPeriod_insert(p) ==
    /\ emCurso[p].pc = "inserirOrcamento"
    /\ LET l == emCurso[p].linha
       IN  gzen_orcamento' = InsereOrcamento(gzen_orcamento,
                                 NovoOrcamento(l.user_id, l.mes, l.ano, 0, 0, 0))
    /\ emCurso' = [emCurso EXCEPT ![p].pc = "fim"]
    /\ UNCHANGED <<gzen_receitas, gzen_despesas, gzen_accounts, gzen_cartao_credito,
                   gzen_despesa_tags, gzen_receita_tags, tz, hist>>

\* recalcular: select valor of the active confirmed incomes of the month
Conc_recalcular_receitas(p) ==
    /\ emCurso[p].pc = "ocioso"
    /\ \E u \in Users, per \in Periodos :
         emCurso' = [emCurso EXCEPT ![p] =
             [Ocioso EXCEPT !.pc = "somarDespesas",
                            !.tipo = "recalcular",
                            !.linha = [user_id |-> u, mes |-> per.mes, ano |-> per.ano],
                            !.soma.receita =
                                SomaValor(ConfirmadasAtivas(gzen_receitas, "data_receita",
                                                            u, per.mes, per.ano))]]
    /\ UNCHANGED <<gzen_receitas, gzen_despesas, gzen_accounts, gzen_cartao_credito,
                   gzen_orcamento, gzen_despesa_tags, gzen_receita_tags, tz, hist>>

\* recalcular: select valor of the active confirmed expenses of the month
Conc_recalcular_despesas(p) ==
    /\ emCurso[p].pc = "somarDespesas"
    /\ LET l == emCurso[p].linha
       IN  emCurso' = [emCurso EXCEPT ![p].pc = "upsertOrcamento",
                                      ![p].soma.despesa =
                                          SomaValor(ConfirmadasAtivas(gzen_despesas, "data_despesa",
                                                                      l.user_id, l.mes, l.ano))]
    /\ UNCHANGED <<gzen_receitas, gzen_despesas, gzen_accounts, gzen_cartao_credito,
                   gzen_orcamento, gzen_despesa_tags, gzen_receita_tags, tz, hist>>

\* recalcular: upsert the three totals on conflict of (user_id, mes, ano), one
\* statement: the row there now is updated, an absent one inserted
Conc_recalcular_upsert(p) ==
    /\ emCurso[p].pc = "upsertOrcamento"
    /\ LET l == emCurso[p].linha
           receitaTotal == emCurso[p].soma.receita
           despesaTotal == emCurso[p].soma.despesa
           saldoAtual == receitaTotal - despesaTotal
           achados == BuscaOrcamento(gzen_orcamento, l.user_id, l.mes, l.ano)
       IN  gzen_orcamento' =
              IF achados = {}
              THEN InsereOrcamento(gzen_orcamento,
                       NovoOrcamento(l.user_id, l.mes, l.ano,
                                     receitaTotal, despesaTotal, saldoAtual))
              ELSE (gzen_orcamento \ achados) \cup
                   { [o EXCEPT !.receita_total = receitaTotal,
                               !.despesa_total = despesaTotal,
                               !.saldo_atual = saldoAtual] : o \in achados }
    /\ emCurso' = [emCurso EXCEPT ![p].pc = "fim"]
    /\ UNCHANGED <<gzen_receitas, gzen_despesas, gzen_accounts, gzen_cartao_credito,
                   gzen_despesa_tags, gzen_receita_tags, tz, hist>>

NextConc ==
    \E p \in Procs :
        \/ Conc_insert(p)
        \/ Conc_lerConta(p)
        \/ Conc_gravarConta(p)
        \/ Conc_lerOrcamento(p)
        \/ Conc_gravarOrcamento(p)
        \/ Conc_findOrCreateByPeriod_select(p)
        \/ Conc_findOrCreateByPeriod_insert(p)
        \/ Conc_recalcular_receitas(p)
        \/ Conc_recalcular_despesas(p)
        \/ Conc_recalcular_upsert(p)

SpecConc == InitConc /\ [][NextConc]_vars

\* Both calls are over, were on the same existing account, and read the same
\* balance from it
LeramOMesmoSaldo ==
    /\ \A p \in Procs : emCurso[p].pc = "fim" /\ emCurso[p].conta.achou
    /\ emCurso["p1"].linha.account_id = emCurso["p2"].linha.account_id
    /\ emCurso["p1"].conta.saldo = emCurso["p2"].conta.saldo

Delta(p) == Sinal(emCurso[p].tipo) * emCurso[p].linha.valor

\* C20: two concurrent creates of confirmed rows on one account can both read
\* the balance B before either writes; when they do, the balance after both
\* is B moved by one of the two amounts only, never by both.
C20_AtualizacaoPerdida ==
    LeramOMesmoSaldo
    => LET a == emCurso["p1"].linha.account_id
           B == emCurso["p1"].conta.saldo
       IN  /\ gzen_accounts[a] \in {B + Delta("p1"), B + Delta("p2")}
           /\ gzen_accounts[a] # B + Delta("p1") + Delta("p2")

C20_Witness ==
    /\ LeramOMesmoSaldo
    /\ emCurso["p1"].tipo = "despesa" /\ emCurso["p2"].tipo = "receita"
    /\ emCurso["p1"].linha.valor # emCurso["p2"].linha.valor
    /\ gzen_accounts[emCurso["p1"].linha.account_id]
         = emCurso["p1"].conta.saldo + Delta("p2")

\* Both calls are creates and are over
CriacoesNoFim ==
    \A p \in Procs : emCurso[p].pc = "fim" /\ emCurso[p].tipo \in {"despesa", "receita"}

\* Both creates read the same budget row before either wrote it
LeramAMesmaLinha ==
    /\ CriacoesNoFim
    /\ emCurso["p1"].orcamento # {}
    /\ emCurso["p1"].orcamento = emCurso["p2"].orcamento

LinhaLida == CHOOSE o \in emCurso["p1"].orcamento : TRUE

LinhaAtual ==
    CHOOSE o \in BuscaOrcamento(gzen_orcamento, LinhaLida.user_id,
                                LinhaLida.mes, LinhaLida.ano) : TRUE

\* C21: two concurrent creates of confirmed rows of one budget period can
\* both read the period's row before either writes it; when they do, the row
\* after both has lost one delta: its saldo_atual is the net read moved by
\* one of the two amounts only, and when the two rows are of the same kind
\* that kind's total is the total read plus one of the two amounts only.
C21_DeltaPerdidoNoOrcamento ==
    LeramAMesmaLinha
    => LET liquido == LinhaLida.receita_total - LinhaLida.despesa_total
           t1 == emCurso["p1"].tipo
           t2 == emCurso["p2"].tipo
       IN  /\ LinhaAtual.saldo_atual \in {liquido + Delta("p1"), liquido + Delta("p2")}
           /\ LinhaAtual.saldo_atual # liquido + Delta("p1") + Delta("p2")
           /\ t1 = t2 =>
                 /\ LinhaAtual[CampoTotal(t1)]
                      \in {LinhaLida[CampoTotal(t1)] + emCurso[p].linha.valor : p \in Procs}
                 /\ LinhaAtual[CampoTotal(t1)]
                      # LinhaLida[CampoTotal(t1)] + emCurso["p1"].linha.valor
                                                 + emCurso["p2"].linha.valor

C21_Witness ==
    /\ LeramAMesmaLinha
    /\ emCurso["p1"].tipo = "receita" /\ emCurso["p2"].tipo = "despesa"
    /\ emCurso["p1"].linha.valor # emCurso["p2"].linha.valor
    /\ LinhaAtual.saldo_atual # LinhaAtual.receita_total - LinhaAtual.despesa_total

\* Both creates found no budget row for their period, the same one
AmbasSemLinha ==
    /\ CriacoesNoFim
    /\ \A p \in Procs : emCurso[p].orcamento = {}
    /\ emCurso["p1"].linha.user_id = emCurso["p2"].linha.user_id
    /\ MesAnoLocal(emCurso["p1"].linha[CampoData(emCurso["p1"].tipo)])
         = MesAnoLocal(emCurso["p2"].linha[CampoData(emCurso["p2"].tipo)])

SomaDosDeltas(tipo) ==
    LET v(p) == IF emCurso[p].tipo = tipo THEN emCurso[p].linha.valor ELSE 0
    IN  v("p1") + v("p2")

\* C22: the budget table never holds two rows of one (user_id, mes, ano), and
\* when two concurrent creates both found the row of their period absent, the
\* row after both carries the amounts of both.
C22_UmaLinhaSemPerda ==
    /\ \A o1, o2 \in gzen_orcamento :
          (o1.user_id = o2.user_id /\ o1.mes = o2.mes /\ o1.ano = o2.ano) => o1 = o2
    /\ AmbasSemLinha
       => LET u == emCurso["p1"].linha.user_id
              per == MesAnoLocal(emCurso["p1"].linha[CampoData(emCurso["p1"].tipo)])
          IN  /\ Total(gzen_orcamento, u, per.mes, per.ano, "receita_total")
                   = SomaDosDeltas("receita")
              /\ Total(gzen_orcamento, u, per.mes, per.ano, "despesa_total")
                   = SomaDosDeltas("despesa")

\* ------------------------------------------------ cards, frames and balances
\* The last call is a successful create, update or delete of an expense
UltDespesa ==
    /\ N >= 1
    /\ Ult.tipo = "despesa"
    /\ Ult.op \in {"create", "update", "delete"}
    /\ Ult.ok

\* The expense the last call was about: the row created, or the row as read
UltLinha == IF Ult.op = "create" THEN Ult.nova ELSE Ult.antiga

\* The accounts the last call names, in the row as read and as written
UltContas ==
    {r.account_id : r \in {x \in {Ult.antiga, Ult.nova} : "account_id" \in DOMAIN x}}

\* C23: every card keeps 0 <= limite_disponivel <= limite_total through any
\* sequence of create, update and soft-delete calls on expenses.
C23_LimiteDoCartao ==
    \A c \in DOMAIN gzen_cartao_credito :
        /\ 0 <= gzen_cartao_credito[c].limite_disponivel
        /\ gzen_cartao_credito[c].limite_disponivel <= gzen_cartao_credito[c].limite_total

\* A reversal that was floored at 0, after a payment that was capped
C23_Witness ==
    /\ N >= 2
    /\ Chamada(N - 1, "create", "despesa") /\ Chamada(N, "delete", "despesa")
    /\ Ult.id = Pen.id
    /\ EhFatura(Pen.nova) /\ Pen.nova.status = "confirmada"
    /\ Pen.pre.cartoes[Cartao].limite_disponivel + Pen.nova.valor
         > Pen.pre.cartoes[Cartao].limite_total
    /\ Ult.pre.cartoes[Cartao].limite_disponivel = Ult.pre.cartoes[Cartao].limite_total
    /\ Ult.pre.cartoes[Cartao].limite_disponivel < Ult.antiga.valor
    /\ gzen_cartao_credito[Cartao].limite_disponivel = 0

\* C25: a call on an expense that is not an invoice payment leaves every card
\* as it was; a call on an invoice payment changes no balance but that of the
\* funding account (account_id, old or new), leaves the balance of the card's
\* own account as it was, and changes nothing of the cards but the available
\* limit of cartao_origem_id.
C25_SoContaESoLimite ==
    UltDespesa
    => /\ ~EhFatura(UltLinha) => gzen_cartao_credito = Ult.pre.cartoes
       /\ EhFatura(UltLinha) =>
             /\ \A a \in DOMAIN gzen_accounts \ UltContas :
                   gzen_accounts[a] = Ult.pre.accounts[a]
             /\ gzen_accounts[UltLinha.cartao_origem_id]
                  = Ult.pre.accounts[UltLinha.cartao_origem_id]
             /\ \A c \in DOMAIN gzen_cartao_credito :
                   /\ gzen_cartao_credito[c].limite_total = Ult.pre.cartoes[c].limite_total
                   /\ c # UltLinha.cartao_origem_id => gzen_cartao_credito[c] = Ult.pre.cartoes[c]

C25_Witness ==
    /\ UltDespesa
    /\ Ult.op = "create"
    /\ EhFatura(Ult.nova) /\ Ult.nova.status = "confirmada"
    /\ gzen_accounts[Ult.nova.account_id] = Ult.pre.accounts[Ult.nova.account_id] - Ult.nova.valor
    /\ gzen_cartao_credito[Cartao].limite_disponivel
         = Ult.pre.cartoes[Cartao].limite_disponivel + Ult.nova.valor
    /\ gzen_accounts[Cartao] = Ult.pre.accounts[Cartao]

\* C26: creating a confirmed income of v takes its account from B to B + v
\* and the receita_total of the income's month from I to I + v, and leaves
\* every despesa_total and every card as they were; soft-deleting it next,
\* or updating it to pendente or cancelada, returns the balance to B and the
\* receita_total to I.
C26_CriaERetiraReceita ==
    ( /\ N >= 2
      /\ Chamada(N - 1, "create", "receita")
      /\ Pen.nova.status = "confirmada"
      /\ \/ Chamada(N, "delete", "receita")
         \/ Chamada(N, "update", "receita") /\ Ult.nova.status # "confirmada"
      /\ Ult.id = Pen.id )
    => LET r == Pen.nova
           per == r.data_receita
           B == Pen.pre.accounts[r.account_id]
           I == Total(Pen.pre.orcamento, r.user_id, per.mes, per.ano, "receita_total")
       IN  /\ Ult.pre.accounts[r.account_id] = B + r.valor
           /\ Total(Ult.pre.orcamento, r.user_id, per.mes, per.ano, "receita_total") = I + r.valor
           /\ SomaTotais(Ult.pre.orcamento, "despesa_total")
                = SomaTotais(Pen.pre.orcamento, "despesa_total")
           /\ Ult.pre.cartoes = Pen.pre.cartoes
           /\ gzen_accounts[r.account_id] = B
           /\ Total(gzen_orcamento, r.user_id, per.mes, per.ano, "receita_total") = I

\* The last call created a confirmed expense, or confirmed one, for more than
\* its account held
UltDebitoMaiorQueSaldo ==
    /\ N >= 1
    /\ Ult.tipo = "despesa"
    /\ \/ Ult.op = "create" /\ "gzen_despesas" \notin Ult.falha
       \/ Ult.op = "update" /\ Ult.antiga # NoRow /\ Ult.antiga.status # "confirmada"
                            /\ Ult.ok
    /\ Ult.nova.status = "confirmada"
    /\ Ult.nova.account_id \in DOMAIN Ult.pre.accounts
    /\ Ult.nova.valor > Ult.pre.accounts[Ult.nova.account_id]

\* C27: a confirmed expense of more than the balance of its account is
\* accepted and stored, and the account is left with the balance minus the
\* amount, below zero.
C27_SaldoNegativoAceito ==
    UltDebitoMaiorQueSaldo
    => /\ Ult.ok
       /\ gzen_despesas[Ult.id].status = "confirmada"
       /\ gzen_accounts[Ult.nova.account_id]
            = Ult.pre.accounts[Ult.nova.account_id] - Ult.nova.valor
       /\ gzen_accounts[Ult.nova.account_id] < 0

C27_Witness ==
    /\ UltDebitoMaiorQueSaldo
    /\ Ult.op = "update"
    /\ Ult.pre.accounts[Ult.nova.account_id] >= 0
    /\ gzen_accounts[Ult.nova.account_id] < 0

\* ------------------------------------------- budget rows and monthly summaries
\* Two owners, their ledger rows, and the calls on the budget table and the
\* read-only summaries.
Donos == Users \cup {Intruso}
MetasDeEconomia == {5}

DespesasSemFatura == {d \in DespesaPayloads : ~d.eh_pagamento_fatura}

OrcCriaDespesa ==
    Livre /\ NTx < MaxTx /\ \E u \in Donos, d \in DespesasSemFatura : Despesa_create(u, d, SemFalha)

OrcCriaReceita ==
    Livre /\ NTx < MaxTx /\ \E u \in Donos, r \in ReceitaPayloads : Receita_create(u, r, SemFalha)

OrcRemoveDespesa ==
    Livre /\ \E id \in 1..Len(gzen_despesas) :
        Despesa_delete(id, gzen_despesas[id].user_id, SemFalha)

OrcRemoveReceita ==
    Livre /\ \E id \in 1..Len(gzen_receitas) :
        Receita_delete(id, gzen_receitas[id].user_id, SemFalha)

OrcDefineMeta ==
    Livre /\ \E u \in Donos, p \in Periodos, m \in MetasDeEconomia :
        Orcamento_update(u, p.mes, p.ano,
                         [mes |-> p.mes, ano |-> p.ano, meta_economia |-> m], SemFalha)

OrcRecalcula ==
    Livre /\ \E u \in Donos, p \in Periodos : Orcamento_recalcular(u, p.mes, p.ano, SemFalha)

OrcBuscaOuCria ==
    Livre /\ \E u \in Donos, p \in Periodos :
        Orcamento_findOrCreateByPeriod(u, p.mes, p.ano, SemFalha)

OrcResumoDespesas ==
    Livre /\ \E u \in Donos, p \in Periodos : Despesa_getResumoMensal(u, p.mes, p.ano)

OrcResumoReceitas ==
    Livre /\ \E u \in Donos, p \in Periodos : Receita_getResumoMensal(u, p.mes, p.ano)

NextOrc ==
    \/ OrcCriaDespesa
    \/ OrcCriaReceita
    \/ OrcRemoveDespesa
    \/ OrcRemoveReceita
    \/ OrcDefineMeta
    \/ OrcRecalcula
    \/ OrcBuscaOuCria
    \/ OrcResumoDespesas
    \/ OrcResumoReceitas

SpecOrc == Init /\ [][NextOrc]_vars

\* The call a step has just completed
Feita == hist'[Len(hist')]

Passo(op) == Len(hist') = Len(hist) + 1 /\ Feita.op = op

OutraChave(o, r) == ~(o.user_id = r.user_id /\ o.mes = r.mes /\ o.ano = r.ano)

\* C24: a run of recalcular changes no ledger row, no balance, no card and
\* no tag row, leaves the budget rows of every other period and owner as they
\* were, and leaves the meta_economia of the row of its own key, when there
\* was one, as it was.
C24_RecalcularSoTotais ==
    [][ Passo("recalcular") =>
          /\ UNCHANGED <<gzen_receitas, gzen_despesas, gzen_accounts, gzen_cartao_credito,
                         gzen_despesa_tags, gzen_receita_tags>>
          /\ {o \in gzen_orcamento' : OutraChave(o, Feita)}
               = {o \in gzen_orcamento : OutraChave(o, Feita)}
          /\ \A o \in BuscaOrcamento(gzen_orcamento, Feita.user_id, Feita.mes, Feita.ano) :
                \A n \in BuscaOrcamento(gzen_orcamento', Feita.user_id, Feita.mes, Feita.ano) :
                    n.meta_economia = o.meta_economia
          /\ BuscaOrcamento(gzen_orcamento', Feita.user_id, Feita.mes, Feita.ano) # {} ]_vars

\* recalcular has just rewritten the totals of a row that has a savings goal
C24_Witness ==
    /\ N >= 1 /\ Ult.op = "recalcular" /\ Ult.ok
    /\ \E o \in BuscaOrcamento(Ult.pre.orcamento, Ult.user_id, Ult.mes, Ult.ano) :
          /\ o.meta_economia # 0
          /\ o.receita_total
               # Total(gzen_orcamento, Ult.user_id, Ult.mes, Ult.ano, "receita_total")
          /\ Total(gzen_orcamento, Ult.user_id, Ult.mes, Ult.ano, "meta_economia")
               = o.meta_economia

\* Sum of valor over the owner's active rows of one status dated in a month
SomaPorStatus(tabela, campo, userId, mes, ano, status) ==
    LET so(r) == /\ r.ativo /\ r.status = status /\ r.user_id = userId
                 /\ r[campo].mes = mes /\ r[campo].ano = ano
    IN  SomaValor(SelectSeq(tabela, so))

\* C28: a monthly summary changes no table, and its total_confirmadas and
\* total_pendentes are the sums of valor over the owner's active rows of the
\* month that are confirmada and pendente; rows that are cancelada, inactive,
\* of another month or of another owner are in neither.
C28_ResumoSoLe ==
    [][ Passo("resumo") =>
          /\ UNCHANGED <<gzen_receitas, gzen_despesas, gzen_accounts, gzen_cartao_credito,
                         gzen_orcamento, gzen_despesa_tags, gzen_receita_tags>>
          /\ LET tabela == IF Feita.tipo = "despesa" THEN gzen_despesas ELSE gzen_receitas
                 campo == CampoData(Feita.tipo)
             IN  /\ Feita.nova.total_confirmadas
                      = SomaPorStatus(tabela, campo, Feita.user_id, Feita.mes, Feita.ano, "confirmada")
                 /\ Feita.nova.total_pendentes
                      = SomaPorStatus(tabela, campo, Feita.user_id, Feita.mes, Feita.ano, "pendente") ]_vars

\* A summary of expenses over a month that has a confirmed row, which it
\* counts, and a cancelled row, which it does not
C28_Witness ==
    /\ N >= 1 /\ Ult.op = "resumo" /\ Ult.tipo = "despesa"
    /\ Ult.nova.total_confirmadas > 0
    /\ \E i, j \in 1..Len(gzen_despesas) :
          /\ gzen_despesas[i].ativo /\ gzen_despesas[i].status = "confirmada"
          /\ gzen_despesas[j].ativo /\ gzen_despesas[j].status = "cancelada"
          /\ \A k \in {i, j} :
                /\ gzen_despesas[k].user_id = Ult.user_id
                /\ gzen_despesas[k].data_despesa.mes = Ult.mes
                /\ gzen_despesas[k].data_despesa.ano = Ult.ano
          /\ Ult.nova.total_confirmadas = gzen_despesas[i].valor

\* The last call is a findOrCreateByPeriod that returned a row
UltBuscaOuCria == N >= 1 /\ Ult.op = "findOrCreate" /\ Ult.ok

\* C30: findOrCreateByPeriod returns the row of its key and leaves the table
\* as it was when there is one, and otherwise adds a row whose totals, net and
\* savings goal are 0 and returns it; a second call right after the first
\* changes nothing, returns the same row, and the key has exactly one row.
C30_BuscaOuCria ==
    UltBuscaOuCria
    => LET antes == BuscaOrcamento(Ult.pre.orcamento, Ult.user_id, Ult.mes, Ult.ano)
           agora == BuscaOrcamento(gzen_orcamento, Ult.user_id, Ult.mes, Ult.ano)
           zerada == [user_id |-> Ult.user_id, mes |-> Ult.mes, ano |-> Ult.ano,
                      receita_total |-> 0, despesa_total |-> 0, saldo_atual |-> 0,
                      meta_economia |-> 0]
       IN  /\ antes # {} => gzen_orcamento = Ult.pre.orcamento /\ Ult.nova \in antes
           /\ antes = {} => gzen_orcamento = Ult.pre.orcamento \cup {zerada} /\ Ult.nova = zerada
           /\ ( /\ N >= 2
                /\ Pen.op = "findOrCreate" /\ Pen.ok
                /\ Pen.user_id = Ult.user_id /\ Pen.mes = Ult.mes /\ Pen.ano = Ult.ano )
              => /\ gzen_orcamento = Ult.pre.orcamento
                 /\ Ult.nova = Pen.nova
                 /\ agora = {Ult.nova}

\* Two calls in a row on a row that carries totals and a savings goal
C30_Witness ==
    /\ N >= 3 /\ UltBuscaOuCria
    /\ Pen.op = "findOrCreate" /\ Pen.ok
    /\ Pen.user_id = Ult.user_id /\ Pen.mes = Ult.mes /\ Pen.ano = Ult.ano
    /\ Ult.nova.receita_total + Ult.nova.despesa_total > 0
    /\ Ult.nova \in gzen_orcamento

\* The last call ran updateOrcamento once, and its writes to the budget table
\* did not fail: the create of a confirmed row, or the delete of one
UltUmDelta ==
    /\ N >= 1
    /\ Ult.tipo \in {"despesa", "receita"}
    /\ Ult.ok
    /\ "gzen_orcamento" \notin Ult.falha
    /\ \/ Ult.op = "create" /\ Ult.nova.status = "confirmada"
       \/ Ult.op = "delete" /\ Ult.antiga.status = "confirmada"

OutroTotal(tipo) == IF tipo = "despesa" THEN "receita_total" ELSE "despesa_total"

\* C29: one run of updateOrcamento, on the period it resolves and with an
\* absent row read as a zeroed one, takes the total of its kind from T to
\* T + valor for add and to T - valor for subtract, leaves the other total
\* as it was, and leaves saldo_atual = receita_total - despesa_total; so a
\* subtract on a period without a row leaves no total above 0.
C29_DeltaDeReferencia ==
    UltUmDelta
    => LET r == IF Ult.op = "create" THEN Ult.nova ELSE Ult.antiga
           direcao == IF Ult.op = "create" THEN 1 ELSE -1
           per == MesAnoLocal(r[CampoData(Ult.tipo)])
           antes(c) == Total(Ult.pre.orcamento, r.user_id, per.mes, per.ano, c)
           depois(c) == Total(gzen_orcamento, r.user_id, per.mes, per.ano, c)
       IN  /\ depois(CampoTotal(Ult.tipo)) = antes(CampoTotal(Ult.tipo)) + direcao * r.valor
           /\ depois(OutroTotal(Ult.tipo)) = antes(OutroTotal(Ult.tipo))
           /\ depois("saldo_atual") = depois("receita_total") - depois("despesa_total")

\* ------------------------------------------- the period key and the two paths
\* The last call created a confirmed row
UltCriaConfirmada ==
    /\ N >= 1
    /\ Ult.op = "create" /\ Ult.ok
    /\ Ult.tipo \in {"despesa", "receita"}
    /\ Ult.nova.status = "confirmada"

\* C32: the create of a confirmed row adds its valor to the total of the
\* period that is the month and year of the row's stored date, the period in
\* whose date range recalcular counts the row, and to no other period.
C32_PeriodoDaData ==
    UltCriaConfirmada
    => LET r == Ult.nova
           d == r[CampoData(Ult.tipo)]
       IN  \A p \in Periodos :
             Total(gzen_orcamento, r.user_id, p.mes, p.ano, CampoTotal(Ult.tipo))
               - Total(Ult.pre.orcamento, r.user_id, p.mes, p.ano, CampoTotal(Ult.tipo))
             = IF NoPeriodo(d, p.mes, p.ano) THEN r.valor ELSE 0

\* C33: with the calls run one at a time and no write failing, the row of
\* every period holds the totals recalcular would compute at that moment
\* from the ledger rows, and their difference as saldo_atual; a period
\* without a row has no active confirmed row.
C33_IncrementalIgualRecalcular ==
    \A u \in Users, p \in Periodos :
        LET receitaTotal == SomaValor(ConfirmadasAtivas(gzen_receitas, "data_receita", u, p.mes, p.ano))
            despesaTotal == SomaValor(ConfirmadasAtivas(gzen_despesas, "data_despesa", u, p.mes, p.ano))
        IN  /\ Total(gzen_orcamento, u, p.mes, p.ano, "receita_total") = receitaTotal
            /\ Total(gzen_orcamento, u, p.mes, p.ano, "despesa_total") = despesaTotal
            /\ Total(gzen_orcamento, u, p.mes, p.ano, "saldo_atual") = receitaTotal - despesaTotal

\* The last call applied or reversed a confirmed invoice payment: its create,
\* or the delete of the active row
UltFatura ==
    /\ UltDespesa
    /\ EhFatura(UltLinha) /\ UltLinha.status = "confirmada"
    /\ Ult.op = "create" \/ (Ult.op = "delete" /\ Ult.antiga.ativo)

\* C37: creating a confirmed invoice payment raises the despesa_total of the
\* month of its date by its valor, deleting it lowers that total by its
\* valor, and in both cases the total is then what recalcular computes for
\* that month, invoice payments included.
C37_FaturaContaComoDespesa ==
    UltFatura
    => LET r == UltLinha
           per == r.data_despesa
           direcao == IF Ult.op = "create" THEN 1 ELSE -1
       IN  /\ Total(gzen_orcamento, r.user_id, per.mes, per.ano, "despesa_total")
                = Total(Ult.pre.orcamento, r.user_id, per.mes, per.ano, "despesa_total")
                  + direcao * r.valor
           /\ Total(gzen_orcamento, r.user_id, per.mes, per.ano, "despesa_total")
                = SomaValor(ConfirmadasAtivas(gzen_despesas, "data_despesa",
                                              r.user_id, per.mes, per.ano))

\* ------------------------------------------------ recalcular racing a create
\* One call is a recalcular, the other a create whose row is dated in the
\* recalculated period and booked on it, and both are over
RecalcularECriacaoNoFim ==
    \E p \in Procs, q \in Procs :
        /\ emCurso[p].pc = "fim" /\ emCurso[p].tipo = "recalcular"
        /\ emCurso[q].pc = "fim" /\ emCurso[q].tipo \in {"despesa", "receita"}
        /\ emCurso[q].linha.user_id = emCurso[p].linha.user_id
        /\ NoPeriodo(emCurso[q].linha[CampoData(emCurso[q].tipo)],
                     emCurso[p].linha.mes, emCurso[p].linha.ano)
        /\ MesAnoLocal(emCurso[q].linha[CampoData(emCurso[q].tipo)])
             = [mes |-> emCurso[p].linha.mes, ano |-> emCurso[p].linha.ano]

Recalculada == CHOOSE p \in Procs : emCurso[p].tipo = "recalcular"

\* C36: when recalcular for a period runs concurrently with a create of a
\* confirmed row of that period, then once both are over the period's totals
\* equal the sums over the active confirmed rows of the period.
C36_RecalcularComCriacao ==
    RecalcularECriacaoNoFim
    => LET l == emCurso[Recalculada].linha
           receitaTotal == SomaValor(ConfirmadasAtivas(gzen_receitas, "data_receita",
                                                       l.user_id, l.mes, l.ano))
           despesaTotal == SomaValor(ConfirmadasAtivas(gzen_despesas, "data_despesa",
                                                       l.user_id, l.mes, l.ano))
       IN  /\ Total(gzen_orcamento, l.user_id, l.mes, l.ano, "receita_total") = receitaTotal
           /\ Total(gzen_orcamento, l.user_id, l.mes, l.ano, "despesa_total") = despesaTotal


\* ------------------------------------------------- updates that change nothing
\* Confirmed expenses, with and without an invoice payment, their removal and
\* their renaming, one call more than MaxOps deep
DespesasConfirmadas == {d \in DespesaPayloads : d.status = "confirmada"}

PatchNome == [nome |-> "n"]

LivreRenomeia == Len(hist) < MaxOps + 1

RenCriaDespesa ==
    LivreRenomeia /\ NTx < MaxTx
    /\ \E u \in Users, d \in DespesasConfirmadas : Despesa_create(u, d, SemFalha)

RenRemoveDespesa ==
    LivreRenomeia /\ \E u \in Users, id \in 1..Len(gzen_despesas) :
        /\ gzen_despesas[id].ativo
        /\ Despesa_delete(id, u, SemFalha)

RenRenomeiaDespesa ==
    LivreRenomeia /\ \E u \in Users, id \in 1..Len(gzen_despesas) :
        /\ gzen_despesas[id].ativo
        /\ Despesa_update(id, u, PatchNome, SemFalha)

NextRenomeia ==
    \/ RenCriaDespesa
    \/ RenRemoveDespesa
    \/ RenRenomeiaDespesa

SpecRenomeia == Init /\ [][NextRenomeia]_vars

\* The last call renamed an active confirmed row and changed no other field
UltRenomeiaConfirmada ==
    /\ N >= 1
    /\ Ult.op = "update" /\ Ult.ok
    /\ Ult.antiga.ativo /\ Ult.antiga.status = "confirmada"
    /\ Ult.nova = Ult.antiga

\* C34: an update that leaves a confirmed row's status, amount, account, date
\* and invoice-payment fields unchanged leaves every account balance, every
\* card's available limit and the receita_total and despesa_total of every
\* budget row as they were before the update.
C34_RenomearNadaMuda ==
    UltRenomeiaConfirmada
    => /\ gzen_accounts = Ult.pre.accounts
       /\ gzen_cartao_credito = Ult.pre.cartoes
       /\ \A u \in Users, p \in Periodos, campo \in {"receita_total", "despesa_total"} :
             Total(gzen_orcamento, u, p.mes, p.ano, campo)
               = Total(Ult.pre.orcamento, u, p.mes, p.ano, campo)


\* ---------------------------------------------------- one step for each await
\* create, update and delete of both ledgers with every await of the handler
\* and of its helpers as a step of its own, for up to two calls in flight.
\* emCurso[p] holds the position of call p, what it has read, the effect
\* sequences it still has to run, the statements it has issued and the value
\* it has returned.  falha is the set of tables whose statements may fail
\* during the call, modo how the client reports a failure: "erro" as a
\* returned error object, "excecao" as a rejected promise.
Parado == [pc |-> "ocioso", op |-> "-", tipo |-> "-", id |-> 0, user_id |-> "-",
           dados |-> NoRow, antiga |-> NoRow, linha |-> NoRow, tags |-> SemTags,
           passes |-> <<>>,
           conta |-> [achou |-> FALSE, saldo |-> 0],
           cartao |-> [achou |-> FALSE, limite_disponivel |-> 0, limite_total |-> 0],
           orcamento |-> {}, escritas |-> <<>>, falha |-> SemFalha, modo |-> "erro",
           resultado |-> [valor |-> "-", error |-> "-"]]

Modos == {"erro", "excecao"}

\* Whether a statement on table t of call c fails: it can when t is in falha
PodeFalhar(c, t) == IF t \in c.falha THEN {TRUE, FALSE} ELSE {FALSE}

Escreve(c, tabela) ==
    [c EXCEPT !.escritas = Append(@, [tabela |-> tabela,
                                      sentido |-> IF c.passes = <<>> THEN "-"
                                                  ELSE Head(c.passes).sentido])]

\* return { despesa, error: null }  /  return { success: true, error: null }
Sucesso(c) ==
    [c EXCEPT !.pc = "fim",
              !.resultado = [valor |-> IF c.op = "delete" THEN "true" ELSE "entidade",
                             error |-> "null"]]

\* catch (error) { return { despesa: null, error: error.message } }
Falhou(c) ==
    [c EXCEPT !.pc = "fim",
              !.resultado = [valor |-> IF c.op = "delete" THEN "false" ELSE "null",
                             error |-> "mensagem"]]

\* The effect sequences of a call: none, and the call returns; else the first
\* one starts with the select of the account
ComPasses(c, ps) ==
    IF ps = <<>> THEN Sucesso(c) ELSE [c EXCEPT !.passes = ps, !.pc = "lerConta"]

\* The end of an effect sequence: the next one starts, or the call returns
ProximoPasso(c) == ComPasses([c EXCEPT !.passes = <<>>], Tail(c.passes))

\* After updateAccountBalance: the card for an invoice payment, else the budget
DepoisDaConta(c) ==
    IF c.tipo = "despesa" /\ EhFatura(Head(c.passes).linha)
    THEN [c EXCEPT !.pc = "lerCartao"]
    ELSE [c EXCEPT !.pc = "lerOrcamento"]

\* A rejected card statement: processarPagamentoFatura catches it and
\* processarDespesa goes on to the budget; reverterDespesa catches it itself
\* and is over
ApanhaNoCartao(c) ==
    IF Head(c.passes).sentido = "aplicar"
    THEN [c EXCEPT !.pc = "lerOrcamento"]
    ELSE ProximoPasso(c)

Aplicar(linha) == [sentido |-> "aplicar", linha |-> linha]
Reverter(linha) == [sentido |-> "reverter", linha |-> linha]

\* Variant: the new row is applied before the old one is reversed
Passos_handleBalanceUpdates_aplicaAntes(antiga, nova) ==
    (IF antiga.status = "confirmada" /\ nova.status # "confirmada"
     THEN <<Reverter(antiga)>> ELSE <<>>)
    \o (IF antiga.status # "confirmada" /\ nova.status = "confirmada"
        THEN <<Aplicar(nova)>> ELSE <<>>)
    \o (IF antiga.status = "confirmada" /\ nova.status = "confirmada"
        THEN <<Aplicar(nova), Reverter(antiga)>> ELSE <<>>)

\* handleBalanceUpdates: the effect sequences an update runs, in order
Passos_handleBalanceUpdates(antiga, nova) ==
    (IF antiga.status = "confirmada" /\ nova.status # "confirmada"
     THEN <<Reverter(antiga)>> ELSE <<>>)
    \o (IF antiga.status # "confirmada" /\ nova.status = "confirmada"
        THEN <<Aplicar(nova)>> ELSE <<>>)
    \o (IF antiga.status = "confirmada" /\ nova.status = "confirmada"
        THEN <<Reverter(antiga), Aplicar(nova)>> ELSE <<>>)

\* The row a create inserts
NovaLinha(tipo, userId, dados) ==
    IF tipo = "despesa"
    THEN [user_id |-> userId,
          account_id |-> dados.account_id,
          valor |-> dados.valor,
          data_despesa |-> DataISO(dados.data_despesa),
          status |-> dados.status,
          ativo |-> TRUE,
          eh_pagamento_fatura |-> dados.eh_pagamento_fatura,
          cartao_origem_id |-> dados.cartao_origem_id]
    ELSE [user_id |-> userId,
          account_id |-> dados.account_id,
          valor |-> dados.valor,
          data_receita |-> DataISO(dados.data_receita),
          status |-> dados.status,
          ativo |-> TRUE]

GravaLinhas(tipo, linhas) ==
    IF tipo = "despesa"
    THEN gzen_despesas' = linhas /\ UNCHANGED gzen_receitas
    ELSE gzen_receitas' = linhas /\ UNCHANGED gzen_despesas

\* create: the insert of the row.  A failed insert is thrown to the catch of
\* create, which returns the error.
Passos_insert(p, userId, tipo, dados, falha, modo) ==
    /\ emCurso[p].pc = "ocioso"
    /\ LET c == [Parado EXCEPT !.op = "create", !.tipo = tipo, !.user_id = userId,
                               !.dados = dados, !.tags = TagsDe(dados),
                               !.falha = falha, !.modo = modo,
                               !.id = Len(Linhas(tipo)) + 1]
           linha == NovaLinha(tipo, userId, dados)
           d == Escreve([c EXCEPT !.linha = linha], TabelaDe(tipo))
       IN  \E falhou \in PodeFalhar(c, TabelaDe(tipo)) :
             IF falhou
             THEN /\ emCurso' = [emCurso EXCEPT ![p] = Falhou(Escreve(c, TabelaDe(tipo)))]
                  /\ UNCHANGED <<gzen_despesas, gzen_receitas>>
             ELSE /\ GravaLinhas(tipo, Append(Linhas(tipo), linha))
                  /\ emCurso' = [emCurso EXCEPT ![p] =
                         IF d.tags # SemTags THEN [d EXCEPT !.pc = "inserirTags"]
                         ELSE ComPasses(d, IF linha.status = "confirmada"
                                           THEN <<Aplicar(linha)>> ELSE <<>>)]
    /\ UNCHANGED <<gzen_accounts, gzen_cartao_credito, gzen_orcamento,
                   gzen_despesa_tags, gzen_receita_tags, tz, hist>>

\* Variant: a rejected insert of the tags is rethrown to the caller
Passos_inserirTags_relanca(p) ==
    /\ emCurso[p].pc = "inserirTags"
    /\ LET c == emCurso[p]
           d == Escreve(c, TabelaTags(c.tipo))
           gravadas == InsereTags(Derivado, TabelaTags(c.tipo),
                                  IF c.tipo = "despesa" THEN "despesa_id" ELSE "receita_id",
                                  c.id, c.tags, SemFalha)
           segue == ComPasses(d, IF c.linha.status = "confirmada"
                                 THEN <<Aplicar(c.linha)>> ELSE <<>>)
       IN  \E falhou \in PodeFalhar(c, TabelaTags(c.tipo)) :
             IF falhou
             THEN /\ emCurso' = [emCurso EXCEPT ![p] =
                         IF c.modo = "excecao" THEN [d EXCEPT !.pc = "excecao"] ELSE segue]
                  /\ UNCHANGED <<gzen_despesa_tags, gzen_receita_tags>>
             ELSE /\ gzen_despesa_tags' = gravadas.despesa_tags
                  /\ gzen_receita_tags' = gravadas.receita_tags
                  /\ emCurso' = [emCurso EXCEPT ![p] = segue]
    /\ UNCHANGED <<gzen_despesas, gzen_receitas, gzen_accounts, gzen_cartao_credito,
                   gzen_orcamento, tz, hist>>

\* create: the insert of the tag rows.  A returned error is logged and the
\* call goes on; a rejected insert is caught by create, which returns the
\* error with the row already written.
Passos_inserirTags(p) ==
    /\ emCurso[p].pc = "inserirTags"
    /\ LET c == emCurso[p]
           d == Escreve(c, TabelaTags(c.tipo))
           gravadas == InsereTags(Derivado, TabelaTags(c.tipo),
                                  IF c.tipo = "despesa" THEN "despesa_id" ELSE "receita_id",
                                  c.id, c.tags, SemFalha)
           segue == ComPasses(d, IF c.linha.status = "confirmada"
                                 THEN <<Aplicar(c.linha)>> ELSE <<>>)
       IN  \E falhou \in PodeFalhar(c, TabelaTags(c.tipo)) :
             IF falhou
             THEN /\ emCurso' = [emCurso EXCEPT ![p] =
                         IF c.modo = "excecao" THEN Falhou(d) ELSE segue]
                  /\ UNCHANGED <<gzen_despesa_tags, gzen_receita_tags>>
             ELSE /\ gzen_despesa_tags' = gravadas.despesa_tags
                  /\ gzen_receita_tags' = gravadas.receita_tags
                  /\ emCurso' = [emCurso EXCEPT ![p] = segue]
    /\ UNCHANGED <<gzen_despesas, gzen_receitas, gzen_accounts, gzen_cartao_credito,
                   gzen_orcamento, tz, hist>>

\* update and delete: findById.  A row not found, a returned error and a
\* rejected select all give null, and the handler throws to its own catch.
Passos_findById(p, op, userId, tipo, id, dados, falha, modo) ==
    /\ emCurso[p].pc = "ocioso"
    /\ LET c == [Parado EXCEPT !.op = op, !.tipo = tipo, !.user_id = userId, !.id = id,
                               !.dados = dados, !.falha = falha, !.modo = modo]
           achada == IF tipo = "despesa" THEN Despesa_findById(id, userId)
                                         ELSE Receita_findById(id, userId)
       IN  \E falhou \in PodeFalhar(c, TabelaDe(tipo)) :
             emCurso' = [emCurso EXCEPT ![p] =
                 IF falhou \/ achada = NoRow THEN Falhou(c)
                 ELSE [c EXCEPT !.antiga = achada,
                                !.pc = IF op = "update" THEN "gravarLinha" ELSE "apagarLinha"]]
    /\ UNCHANGED <<gzen_despesas, gzen_receitas, gzen_accounts, gzen_cartao_credito,
                   gzen_orcamento, gzen_despesa_tags, gzen_receita_tags, tz, hist>>

\* update: the UPDATE of the row by id and user_id, which returns the row as
\* it is stored after it; handleBalanceUpdates compares the row read by
\* findById with the row returned.
Passos_gravarLinha(p) ==
    /\ emCurso[p].pc = "gravarLinha"
    /\ LET c == emCurso[p]
           campo == CampoData(c.tipo)
           linha == Aplica(Linhas(c.tipo)[c.id], ConverteData(c.dados, campo))
           d == Escreve([c EXCEPT !.linha = linha], TabelaDe(c.tipo))
       IN  \E falhou \in PodeFalhar(c, TabelaDe(c.tipo)) :
             IF falhou
             THEN /\ emCurso' = [emCurso EXCEPT ![p] = Falhou(d)]
                  /\ UNCHANGED <<gzen_despesas, gzen_receitas>>
             ELSE /\ GravaLinhas(c.tipo, [Linhas(c.tipo) EXCEPT ![c.id] = linha])
                  /\ emCurso' = [emCurso EXCEPT ![p] =
                         ComPasses(d, Passos_handleBalanceUpdates(c.antiga, linha))]
    /\ UNCHANGED <<gzen_accounts, gzen_cartao_credito, gzen_orcamento,
                   gzen_despesa_tags, gzen_receita_tags, tz, hist>>

\* delete: the UPDATE of ativo to false, then the reversal of the row read by
\* findById when that row was confirmed
Passos_apagarLinha(p) ==
    /\ emCurso[p].pc = "apagarLinha"
    /\ LET c == emCurso[p]
           linha == [Linhas(c.tipo)[c.id] EXCEPT !.ativo = FALSE]
           d == Escreve([c EXCEPT !.linha = linha], TabelaDe(c.tipo))
       IN  \E falhou \in PodeFalhar(c, TabelaDe(c.tipo)) :
             IF falhou
             THEN /\ emCurso' = [emCurso EXCEPT ![p] = Falhou(d)]
                  /\ UNCHANGED <<gzen_despesas, gzen_receitas>>
             ELSE /\ GravaLinhas(c.tipo, [Linhas(c.tipo) EXCEPT ![c.id] = linha])
                  /\ emCurso' = [emCurso EXCEPT ![p] =
                         ComPasses(d, IF c.antiga.status = "confirmada"
                                      THEN <<Reverter(c.antiga)>> ELSE <<>>)]
    /\ UNCHANGED <<gzen_accounts, gzen_cartao_credito, gzen_orcamento,
                   gzen_despesa_tags, gzen_receita_tags, tz, hist>>

\* The operation on the account: an expense applied is subtracted and
\* reversed is added, an income the other way round
OperacaoDaConta(tipo, sentido) ==
    IF (tipo = "despesa") = (sentido = "aplicar") THEN "subtract" ELSE "add"

\* updateAccountBalance: select saldo_atual of the account.  No row, a
\* returned error and a rejected select all leave the balance alone.
Passos_lerConta(p) ==
    /\ emCurso[p].pc = "lerConta"
    /\ LET c == emCurso[p]
           a == Head(c.passes).linha.account_id
       IN  \E falhou \in PodeFalhar(c, "gzen_accounts") :
             emCurso' = [emCurso EXCEPT ![p] =
                 IF ~falhou /\ a \in DOMAIN gzen_accounts
                 THEN [c EXCEPT !.conta = [achou |-> TRUE, saldo |-> gzen_accounts[a]],
                                !.pc = "gravarConta"]
                 ELSE DepoisDaConta(c)]
    /\ UNCHANGED <<gzen_despesas, gzen_receitas, gzen_accounts, gzen_cartao_credito,
                   gzen_orcamento, gzen_despesa_tags, gzen_receita_tags, tz, hist>>

\* updateAccountBalance: update saldo_atual to the balance read plus or minus
\* valor; the result of the update is not looked at
Passos_gravarConta(p) ==
    /\ emCurso[p].pc = "gravarConta"
    /\ LET c == emCurso[p]
           linha == Head(c.passes).linha
           a == linha.account_id
           novoSaldo == IF OperacaoDaConta(c.tipo, Head(c.passes).sentido) = "add"
                        THEN c.conta.saldo + linha.valor
                        ELSE c.conta.saldo - linha.valor
       IN  \E falhou \in PodeFalhar(c, "gzen_accounts") :
             /\ gzen_accounts' = IF falhou THEN gzen_accounts
                                 ELSE [gzen_accounts EXCEPT ![a] = novoSaldo]
             /\ emCurso' = [emCurso EXCEPT ![p] = DepoisDaConta(Escreve(c, "gzen_accounts"))]
    /\ UNCHANGED <<gzen_despesas, gzen_receitas, gzen_cartao_credito,
                   gzen_orcamento, gzen_despesa_tags, gzen_receita_tags, tz, hist>>

\* processarPagamentoFatura / reverterDespesa: select the limits of the card
Passos_lerCartao(p) ==
    /\ emCurso[p].pc = "lerCartao"
    /\ LET c == emCurso[p]
           k == Head(c.passes).linha.cartao_origem_id
       IN  \E falhou \in PodeFalhar(c, "gzen_cartao_credito") :
             emCurso' = [emCurso EXCEPT ![p] =
                 IF falhou
                 THEN IF c.modo = "excecao" THEN ApanhaNoCartao(c)
                      ELSE [c EXCEPT !.pc = "lerOrcamento"]
                 ELSE IF k \in DOMAIN gzen_cartao_credito
                 THEN [c EXCEPT !.cartao = [achou |-> TRUE,
                                            limite_disponivel |-> gzen_cartao_credito[k].limite_disponivel,
                                            limite_total |-> gzen_cartao_credito[k].limite_total],
                                !.pc = "gravarCartao"]
                 ELSE [c EXCEPT !.pc = "lerOrcamento"]]
    /\ UNCHANGED <<gzen_despesas, gzen_receitas, gzen_accounts, gzen_cartao_credito,
                   gzen_orcamento, gzen_despesa_tags, gzen_receita_tags, tz, hist>>

\* processarPagamentoFatura: limite_disponivel = min(read + valor, limite_total)
\* reverterDespesa: limite_disponivel = max(read - valor, 0)
Passos_gravarCartao(p) ==
    /\ emCurso[p].pc = "gravarCartao"
    /\ LET c == emCurso[p]
           despesa == Head(c.passes).linha
           k == despesa.cartao_origem_id
           limiteAtualizado ==
               IF Head(c.passes).sentido = "aplicar"
               THEN Min(c.cartao.limite_disponivel + despesa.valor, c.cartao.limite_total)
               ELSE Max(c.cartao.limite_disponivel - despesa.valor, 0)
           d == Escreve(c, "gzen_cartao_credito")
       IN  \E falhou \in PodeFalhar(c, "gzen_cartao_credito") :
             /\ gzen_cartao_credito' =
                   IF falhou THEN gzen_cartao_credito
                   ELSE [gzen_cartao_credito EXCEPT ![k].limite_disponivel = limiteAtualizado]
             /\ emCurso' = [emCurso EXCEPT ![p] =
                   IF falhou /\ c.modo = "excecao" THEN ApanhaNoCartao(d)
                   ELSE [d EXCEPT !.pc = "lerOrcamento"]]
    /\ UNCHANGED <<gzen_despesas, gzen_receitas, gzen_accounts,
                   gzen_orcamento, gzen_despesa_tags, gzen_receita_tags, tz, hist>>

\* updateOrcamento: select the row of (user_id, mes, ano), the month and year
\* read from the date in local time.  A returned error leaves orcamento null
\* and the insert follows; a rejected select is caught and nothing follows.
Passos_lerOrcamento(p) ==
    /\ emCurso[p].pc = "lerOrcamento"
    /\ LET c == emCurso[p]
           linha == Head(c.passes).linha
           per == MesAnoLocal(linha[CampoData(c.tipo)])
       IN  \E falhou \in PodeFalhar(c, "gzen_orcamento") :
             emCurso' = [emCurso EXCEPT ![p] =
                 IF falhou /\ c.modo = "excecao" THEN ProximoPasso(c)
                 ELSE [c EXCEPT !.pc = "gravarOrcamento",
                                !.orcamento =
                                    IF falhou THEN {}
                                    ELSE BuscaOrcamento(gzen_orcamento, linha.user_id,
                                                        per.mes, per.ano)]]
    /\ UNCHANGED <<gzen_despesas, gzen_receitas, gzen_accounts, gzen_cartao_credito,
                   gzen_orcamento, gzen_despesa_tags, gzen_receita_tags, tz, hist>>

\* updateOrcamento: insert the row when none was read, else update the row
\* read, by id, with totals computed from what was read
Passos_gravarOrcamento(p) ==
    /\ emCurso[p].pc = "gravarOrcamento"
    /\ LET c == emCurso[p]
           linha == Head(c.passes).linha
           per == MesAnoLocal(linha[CampoData(c.tipo)])
           valor == linha.valor
           operation == IF Head(c.passes).sentido = "aplicar" THEN "add" ELSE "subtract"
           gravado ==
              IF c.orcamento = {}
              THEN InsereOrcamento(gzen_orcamento,
                       NovoOrcamento(linha.user_id, per.mes, per.ano,
                                     IF c.tipo = "receita" THEN valor ELSE 0,
                                     IF c.tipo = "despesa" THEN valor ELSE 0,
                                     IF c.tipo = "receita" THEN valor ELSE -valor))
              ELSE LET orcamento == CHOOSE o \in c.orcamento : TRUE
                       multiplicador == IF operation = "add" THEN 1 ELSE -1
                       valorAtualizado == valor * multiplicador
                       updates == IF c.tipo = "receita"
                                  THEN [receita_total |-> orcamento.receita_total + valorAtualizado]
                                  ELSE [despesa_total |-> orcamento.despesa_total + valorAtualizado]
                       novaReceita == Ou(updates, "receita_total", orcamento.receita_total)
                       novaDespesa == Ou(updates, "despesa_total", orcamento.despesa_total)
                       atuais == BuscaOrcamento(gzen_orcamento, orcamento.user_id,
                                                orcamento.mes, orcamento.ano)
                   IN  (gzen_orcamento \ atuais) \cup
                       { [k \in DOMAIN o |->
                             IF k = "saldo_atual" THEN novaReceita - novaDespesa
                             ELSE IF k \in DOMAIN updates THEN updates[k]
                             ELSE o[k]] : o \in atuais }
       IN  \E falhou \in PodeFalhar(c, "gzen_orcamento") :
             /\ gzen_orcamento' = IF falhou THEN gzen_orcamento ELSE gravado
             /\ emCurso' = [emCurso EXCEPT ![p] = ProximoPasso(Escreve(c, "gzen_orcamento"))]
    /\ UNCHANGED <<gzen_despesas, gzen_receitas, gzen_accounts, gzen_cartao_credito,
                   gzen_despesa_tags, gzen_receita_tags, tz, hist>>

\* ---- two calls in flight, no failures
\* The row the calls are about: one atomic create before either call starts
DataEmCurso == CHOOSE d \in Datas : d.dia = 31

DespesasPreparadas ==
    {d \in DespesaPayloads : d.status \in {"pendente", "confirmada"} /\ d.valor = 3
                              /\ d.data_despesa = DataEmCurso}

ReceitasPreparadas ==
    {r \in ReceitaPayloads : r.status \in {"pendente", "confirmada"} /\ r.valor = 3
                              /\ r.data_receita = DataEmCurso}

\* What the calls in flight create, and the patches they send
DespesasEmCurso ==
    {Junta([tags |-> Tags], d) :
        d \in {x \in DespesaPayloads : x.status = "confirmada" /\ x.valor = 1
                                        /\ x.data_despesa = DataEmCurso /\ EhFatura(x)}}

ReceitasEmCurso ==
    {r \in ReceitaPayloads : r.status = "confirmada" /\ r.valor = 1
                              /\ r.data_receita = DataEmCurso}

PatchesEmCurso == {[status |-> "confirmada"], [status |-> "pendente"], PatchNome}

Tipos == {"despesa", "receita"}

InitPassos ==
    /\ InitTabelas
    /\ emCurso = [p \in Procs |-> Parado]

PassosPrepara ==
    /\ hist = <<>> /\ NTx = 0
    /\ \A p \in Procs : emCurso[p].pc = "ocioso"
    /\ \E u \in Users :
         \/ \E d \in DespesasPreparadas : Despesa_create(u, d, SemFalha)
         \/ \E r \in ReceitasPreparadas : Receita_create(u, r, SemFalha)

PassosCria(p) ==
    /\ NTx < MaxTx
    /\ \E u \in Users :
         \/ \E d \in DespesasEmCurso : Passos_insert(p, u, "despesa", d, SemFalha, "erro")
         \/ \E r \in ReceitasEmCurso : Passos_insert(p, u, "receita", r, SemFalha, "erro")

PassosAtualiza(p) ==
    \E u \in Users, tipo \in Tipos :
      \E id \in 1..Len(Linhas(tipo)), dados \in PatchesEmCurso :
         Passos_findById(p, "update", u, tipo, id, dados, SemFalha, "erro")

PassosRemove(p) ==
    \E u \in Users, tipo \in Tipos :
      \E id \in 1..Len(Linhas(tipo)) :
         Passos_findById(p, "delete", u, tipo, id, NoRow, SemFalha, "erro")

NextPassos ==
    \/ PassosPrepara
    \/ \E p \in Procs :
        \/ PassosCria(p)
        \/ PassosAtualiza(p)
        \/ PassosRemove(p)
        \/ Passos_inserirTags(p)
        \/ Passos_gravarLinha(p)
        \/ Passos_apagarLinha(p)
        \/ Passos_lerConta(p)
        \/ Passos_gravarConta(p)
        \/ Passos_lerCartao(p)
        \/ Passos_gravarCartao(p)
        \/ Passos_lerOrcamento(p)
        \/ Passos_gravarOrcamento(p)

SpecPassos == InitPassos /\ [][NextPassos]_vars


\* --------------------------------------------- the order of a call's writes
\* The place of a table in the order row, tags, balance, card limit, budget
Ordem(c, tabela) ==
    IF tabela = TabelaDe(c.tipo) THEN 0
    ELSE IF tabela = TabelaTags(c.tipo) THEN 1
    ELSE IF tabela = "gzen_accounts" THEN 2
    ELSE IF tabela = "gzen_cartao_credito" THEN 3
    ELSE 4

\* An update of a confirmed row that leaves it confirmed
ConfirmadaParaConfirmada(c) ==
    /\ c.op = "update"
    /\ c.antiga.status = "confirmada" /\ c.linha.status = "confirmada"

\* C31 as stated: within one call the writes come in the one order row, tags,
\* account balance, card limit, budget, each after the one before it.
C31_OrdemFixa ==
    \A p \in Procs :
        LET c == emCurso[p]
            e == c.escritas
        IN  \A i \in 1..(Len(e) - 1) : Ordem(c, e[i].tabela) < Ordem(c, e[i + 1].tabela)

\* C31: within one call the row write comes first and is the only one, the
\* tag write comes second, and the writes of each effect come in the order
\* account balance, card limit, budget; only an update of a confirmed row
\* that stays confirmed runs two effects and so writes a balance after a
\* budget: every write of the reversal of the old row comes before every
\* write of the application of the new row.
C31_OrdemPorEfeito ==
    \A p \in Procs :
        LET c == emCurso[p]
            e == c.escritas
        IN  /\ Len(e) >= 1 => e[1].tabela = TabelaDe(c.tipo)
            /\ \A i \in 2..Len(e) : e[i].tabela # TabelaDe(c.tipo)
            /\ \A i \in 1..Len(e) : e[i].tabela = TabelaTags(c.tipo) => i = 2
            /\ \A i \in 1..(Len(e) - 1) :
                  \/ /\ e[i].sentido \in {"-", e[i + 1].sentido}
                     /\ Ordem(c, e[i].tabela) < Ordem(c, e[i + 1].tabela)
                  \/ /\ ConfirmadaParaConfirmada(c)
                     /\ e[i].sentido = "reverter" /\ e[i + 1].sentido = "aplicar"

\* A finished update of a confirmed invoice payment that stays confirmed,
\* next to a finished create with tags
C31_Witness ==
    \E p \in Procs, q \in Procs :
        /\ emCurso[p].pc = "fim" /\ ConfirmadaParaConfirmada(emCurso[p])
        /\ emCurso[p].tipo = "despesa" /\ Len(emCurso[p].escritas) = 7
        /\ emCurso[q].pc = "fim" /\ emCurso[q].op = "create"
        /\ emCurso[q].tags # SemTags /\ Len(emCurso[q].escritas) = 5


\* ------------------------------------------- two calls on one transaction
\* Both calls are over and were the same operation on the row created before
\* them, which both read by findById before either wrote it
DuasNaMesmaLinha(op) ==
    /\ Len(hist) = 1
    /\ \A p \in Procs :
          /\ emCurso[p].pc = "fim" /\ emCurso[p].op = op
          /\ emCurso[p].tipo = hist[1].tipo /\ emCurso[p].id = hist[1].id
          /\ emCurso[p].antiga = hist[1].nova

DuasConfirmacoes ==
    /\ DuasNaMesmaLinha("update")
    /\ hist[1].nova.status = "pendente"
    /\ \A p \in Procs : emCurso[p].dados = [status |-> "confirmada"]

DoisDeletes ==
    /\ DuasNaMesmaLinha("delete")
    /\ hist[1].nova.status = "confirmada"

\* C35: when two updates that set the same pending row to confirmed run
\* concurrently, the balance of its account and the budget total of its kind
\* end moved by its amount once; when two deletes of the same confirmed row
\* run concurrently, both end where they were before the row was created.
C35_NoMaximoUmaVez ==
    LET r == hist[1].nova
        antes == hist[1].pre
        campo == CampoTotal(hist[1].tipo)
    IN  /\ DuasConfirmacoes
           => /\ gzen_accounts[r.account_id]
                   = antes.accounts[r.account_id] + Sinal(hist[1].tipo) * r.valor
              /\ SomaTotais(gzen_orcamento, campo) = r.valor
        /\ DoisDeletes
           => /\ gzen_accounts[r.account_id] = antes.accounts[r.account_id]
              /\ SomaTotais(gzen_orcamento, campo) = 0


\* ------------------------------------- one call, with statements that fail
\* One call at a time, of any kind, on a row that exists or not, with no
\* failure or with every statement of it free to fail, reported either way.
\* The storage answers every statement and the event loop resumes the call
\* after each await, so a call that can take a step does take it.
TodasAsTabelas ==
    {"gzen_despesas", "gzen_receitas", "gzen_despesa_tags", "gzen_receita_tags",
     "gzen_accounts", "gzen_cartao_credito", "gzen_orcamento"}

FalhasPassos == {SemFalha, TodasAsTabelas}

Chamador == "p1"

IdsChamados == 1..MaxTx

\* What the call creates, with and without tags, and the patches it sends
ComESemTags(payloads) == payloads \cup {Junta([tags |-> Tags], d) : d \in payloads}

DespesasJustas ==
    ComESemTags({d \in DespesaPayloads : d.status \in {"pendente", "confirmada"}
                                         /\ d.valor = 1 /\ d.data_despesa = DataEmCurso})

ReceitasJustas ==
    ComESemTags({r \in ReceitaPayloads : r.status \in {"pendente", "confirmada"}
                                         /\ r.valor = 1 /\ r.data_receita = DataEmCurso})

JustoCria ==
    /\ NTx < MaxTx
    /\ \E u \in Users, falha \in FalhasPassos, modo \in Modos :
         \/ \E d \in DespesasJustas :
               Passos_insert(Chamador, u, "despesa", d, falha, modo)
         \/ \E r \in ReceitasJustas :
               Passos_insert(Chamador, u, "receita", r, falha, modo)

JustoAtualiza ==
    \E u \in Users, tipo \in Tipos, id \in IdsChamados, falha \in FalhasPassos, modo \in Modos :
      \E dados \in PatchesEmCurso :
         Passos_findById(Chamador, "update", u, tipo, id, dados, falha, modo)

JustoRemove ==
    \E u \in Users, tipo \in Tipos, id \in IdsChamados, falha \in FalhasPassos, modo \in Modos :
         Passos_findById(Chamador, "delete", u, tipo, id, NoRow, falha, modo)

\* The steps of a call after its first
Continua(p) ==
    \/ Passos_inserirTags(p)
    \/ Passos_gravarLinha(p)
    \/ Passos_apagarLinha(p)
    \/ Passos_lerConta(p)
    \/ Passos_gravarConta(p)
    \/ Passos_lerCartao(p)
    \/ Passos_gravarCartao(p)
    \/ Passos_lerOrcamento(p)
    \/ Passos_gravarOrcamento(p)

NextJusto ==
    \/ PassosPrepara
    \/ JustoCria
    \/ JustoAtualiza
    \/ JustoRemove
    \/ \E p \in Procs : Continua(p)

SpecJusto ==
    /\ InitPassos
    /\ [][NextJusto]_vars
    /\ WF_vars(\E p \in Procs : Continua(p))

\* The two values a handler returns: the entity (or success = true) with
\* error = null, or null (or success = false) with an error
ResultadoBemFormado(c) ==
    IF c.op = "delete"
    THEN c.resultado \in {[valor |-> "true", error |-> "null"],
                          [valor |-> "false", error |-> "mensagem"]}
    ELSE c.resultado \in {[valor |-> "entidade", error |-> "null"],
                          [valor |-> "null", error |-> "mensagem"]}

\* C38: every create, update and delete call that has started ends by
\* returning a value, never by raising to its caller, whichever of its
\* statements fail and however the failure is reported; the value is the
\* entity (or success = true) with error = null, or null (or success =
\* false) with an error.
C38_TerminaComResultado ==
    /\ [](\A p \in Procs : emCurso[p].pc # "excecao")
    /\ [](\A p \in Procs : emCurso[p].pc = "fim" => ResultadoBemFormado(emCurso[p]))
    /\ \A p \in Procs : (emCurso[p].pc # "ocioso") ~> (emCurso[p].pc = "fim")

\* A create of a confirmed row has returned the row with error = null although
\* the write of the balance was rejected
C38_Witness ==
    LET c == emCurso[Chamador]
    IN  /\ c.pc = "fim" /\ c.op = "create"
        /\ c.falha = TodasAsTabelas /\ c.modo = "excecao"
        /\ c.linha.status = "confirmada"
        /\ c.resultado = [valor |-> "entidade", error |-> "null"]
        /\ Len(c.escritas) >= 2 /\ c.escritas[2].tabela = "gzen_accounts"
        /\ gzen_accounts = SaldosIniciais
        /\ NTx = 1

====
